---------------------------- MODULE Spec2Model ----------------------------
(***************************************************************************)
(* A model of pymemcache/client.py: the stream readers _readline and       *)
(* _readvalue, and the Client that owns one socket and one pending buffer. *)
(*                                                                         *)
(* A str is a sequence of one-character strings.  A socket is the sequence *)
(* of chunks its successive recv calls will return; when the sequence is   *)
(* exhausted recv returns the empty str (the peer closed the stream).      *)
(***************************************************************************)
EXTENDS Integers, Sequences, FiniteSets, TLC

VARIABLES sock, buf, net, last, cfg, rd

vars == <<sock, buf, net, last, cfg, rd>>

-----------------------------------------------------------------------------
(* Bounds of the model.                                                    *)

\* longest byte stream handed to the readers in SpecReader
MaxLen == 4
\* largest size argument handed to _readvalue in SpecReader
MaxSize == 2
\* most places at which the stream one call reads is cut into recv chunks
MaxCuts == 1
\* the server writes a second reply right behind a first one of at most
\* this many bytes
MaxBacklog == 5

\* the most bytes of a reply that the server writes behind another one
MaxBehind == 16

-----------------------------------------------------------------------------
(* Python str primitives.                                                  *)

CR == "\r"
LF == "\n"
CRLF == <<CR, LF>>

Min(a, b) == IF a < b THEN a ELSE b
Max(a, b) == IF a > b THEN a ELSE b

\* s[lo:hi] with Python's treatment of negative and out-of-range indices
PySlice(s, lo, hi) ==
    LET n == Len(s)
        l == IF lo < 0 THEN Max(n + lo, 0) ELSE Min(lo, n)
        h == IF hi < 0 THEN Max(n + hi, 0) ELSE Min(hi, n)
    IN  IF l < h THEN SubSeq(s, l + 1, h) ELSE <<>>

\* s[i:]
PyFrom(s, i) == PySlice(s, i, Len(s))

\* s[:j]
PyTo(s, j) == PySlice(s, 0, j)

\* s.startswith(p)
startswith(s, p) == Len(s) >= Len(p) /\ SubSeq(s, 1, Len(p)) = p

\* s.find(sub): the lowest 0-based index at which sub occurs, or -1
find(s, sub) ==
    LET hits == {i \in 0..(Len(s) - Len(sub)) :
                    SubSeq(s, i + 1, i + Len(sub)) = sub}
    IN  IF hits = {} THEN -1
        ELSE CHOOSE i \in hits : \A j \in hits : i <= j

\* s.partition(sep): <<before, sep, after>> around the first occurrence
partition(s, sep) ==
    LET idx == find(s, sep)
    IN  IF idx = -1 THEN <<s, <<>>, <<>>>>
        ELSE <<SubSeq(s, 1, idx), sep, SubSeq(s, idx + Len(sep) + 1, Len(s))>>

\* ''.join(chunks)
RECURSIVE join(_)
join(chunks) ==
    IF chunks = <<>> THEN <<>> ELSE Head(chunks) \o join(Tail(chunks))

-----------------------------------------------------------------------------
(* The socket's receive side.                                              *)

RECV_SIZE == 4096

\* sock.recv(n): the next chunk, at most n bytes of it; '' once the peer
\* has closed and nothing is left.
recv(s, n) ==
    IF s = <<>> THEN [data |-> <<>>, sock |-> <<>>]
    ELSE IF Len(Head(s)) <= n THEN [data |-> Head(s), sock |-> Tail(s)]
    ELSE [data |-> SubSeq(Head(s), 1, n),
          sock |-> <<SubSeq(Head(s), n + 1, Len(Head(s)))>> \o Tail(s)]

-----------------------------------------------------------------------------
(* _readline and _readvalue.  The result records the exception raised      *)
(* ("" when the call returns), the returned (buf, line) or (buf, value),   *)
(* the socket after the call and the number of recv calls made.            *)

ReadResult(e, b, d, s, n) ==
    [exc |-> e, buf |-> b, data |-> d, sock |-> s, nrecv |-> n]

RECURSIVE readline_loop(_, _, _, _, _)
readline_loop(s, b, chunks, last_char, n) ==
    LET idx == find(b, CRLF) IN
    IF idx # -1
    THEN LET p == partition(b, CRLF)
         IN  ReadResult("", p[3], join(Append(chunks, p[1])), s, n)
    ELSE IF last_char = CR /\ b = <<>>
    THEN ReadResult("IndexError", <<>>, <<>>, s, n)
    ELSE IF last_char = CR /\ b[1] = LF
    THEN LET k == Len(chunks)
             stripped == [chunks EXCEPT ![k] = PyTo(chunks[k], -1)]
         IN  ReadResult("", PyFrom(b, 1), join(stripped), s, n)
    ELSE LET chunks2 == IF b # <<>> THEN Append(chunks, b) ELSE chunks
             last2   == IF b # <<>> THEN b[Len(b)] ELSE last_char
             r       == recv(s, RECV_SIZE)
         IN  IF r.data = <<>>
             THEN ReadResult("MemcacheUnexpectedCloseError",
                             <<>>, <<>>, r.sock, n + 1)
             ELSE readline_loop(r.sock, r.data, chunks2, last2, n + 1)

\* a _readline that returns what it has when the stream ends
RECURSIVE readline_partial_loop(_, _, _, _, _)
readline_partial_loop(s, b, chunks, last_char, n) ==
    LET idx == find(b, CRLF) IN
    IF idx # -1
    THEN LET p == partition(b, CRLF)
         IN  ReadResult("", p[3], join(Append(chunks, p[1])), s, n)
    ELSE IF last_char = CR /\ b # <<>> /\ b[1] = LF
    THEN LET k == Len(chunks)
             stripped == [chunks EXCEPT ![k] = PyTo(chunks[k], -1)]
         IN  ReadResult("", PyFrom(b, 1), join(stripped), s, n)
    ELSE LET chunks2 == IF b # <<>> THEN Append(chunks, b) ELSE chunks
             last2   == IF b # <<>> THEN b[Len(b)] ELSE last_char
             r       == recv(s, RECV_SIZE)
         IN  IF r.data = <<>>
             THEN ReadResult("", <<>>, join(chunks2), r.sock, n + 1)
             ELSE readline_partial_loop(r.sock, r.data, chunks2, last2, n + 1)

readline_partial(s, b) == readline_partial_loop(s, b, <<>>, "", 0)

\* a _readline that calls recv before it looks at the pending buffer
readline_recv_first(s, b) ==
    readline_loop(recv(s, RECV_SIZE).sock, b \o recv(s, RECV_SIZE).data,
                  <<>>, "", 1)

_readline(s, b) == readline_loop(s, b, <<>>, "", 0)

RECURSIVE readvalue_loop(_, _, _, _, _)
readvalue_loop(s, b, rlen, chunks, n) ==
    IF rlen - Len(b) > 0
    THEN LET rlen2   == IF b # <<>> THEN rlen - Len(b) ELSE rlen
             chunks2 == IF b # <<>> THEN Append(chunks, b) ELSE chunks
             r       == recv(s, RECV_SIZE)
         IN  IF r.data = <<>>
             THEN ReadResult("MemcacheUnexpectedCloseError",
                             <<>>, <<>>, r.sock, n + 1)
             ELSE readvalue_loop(r.sock, r.data, rlen2, chunks2, n + 1)
    ELSE ReadResult("", PyFrom(b, rlen),
                    join(Append(chunks, PyTo(b, rlen - 2))), s, n)

_readvalue(s, b, size) == readvalue_loop(s, b, size + 2, <<>>, 0)

-----------------------------------------------------------------------------
(* Conversions between str and int, and str.split().                       *)

Digits == <<"0", "1", "2", "3", "4", "5", "6", "7", "8", "9">>
IsDigit(c) == \E i \in 1..Len(Digits) : Digits[i] = c
DigitVal(c) == (CHOOSE i \in 1..Len(Digits) : Digits[i] = c) - 1

\* The vertical tab, which has no escape in a string here: one character.
VT == "U+000B"
\* The form feed.
FF == "\f"

\* c.isspace() for a character of a str: space, \t, \n, \r, \x0b and \x0c
IsSpace(c) == c \in {" ", "\t", LF, CR, VT, FF}

\* str(n) for an integer n
RECURSIVE DecStr(_)
DecStr(n) ==
    IF n < 0 THEN <<"-">> \o DecStr(0 - n)
    ELSE IF n < 10 THEN <<Digits[n + 1]>>
    ELSE DecStr(n \div 10) \o <<Digits[(n % 10) + 1]>>

\* s.strip()
RECURSIVE strip(_)
strip(s) ==
    IF s = <<>> THEN s
    ELSE IF IsSpace(s[1]) THEN strip(Tail(s))
    ELSE IF IsSpace(s[Len(s)]) THEN strip(SubSeq(s, 1, Len(s) - 1))
    ELSE s

RECURSIVE DigitsVal(_)
DigitsVal(s) ==
    IF s = <<>> THEN 0
    ELSE 10 * DigitsVal(SubSeq(s, 1, Len(s) - 1)) + DigitVal(s[Len(s)])

\* s.lstrip()
RECURSIVE lstrip(_)
lstrip(s) ==
    IF s # <<>> /\ IsSpace(s[1]) THEN lstrip(Tail(s)) ELSE s

\* int(s): surrounding whitespace is ignored, then an optional sign, then
\* whitespace again, then one or more decimal digits; anything else raises
\* ValueError (ok = FALSE).
PyInt(s) ==
    LET t    == strip(s)
        neg  == t # <<>> /\ t[1] = "-"
        sgn  == t # <<>> /\ t[1] \in {"-", "+"}
        body == IF sgn THEN lstrip(Tail(t)) ELSE t
        good == body # <<>> /\ \A i \in 1..Len(body) : IsDigit(body[i])
    IN  [ok  |-> good,
         val |-> IF good
                 THEN (IF neg THEN 0 - DigitsVal(body) ELSE DigitsVal(body))
                 ELSE 0]

\* s.split(): the maximal runs of non-whitespace characters
RECURSIVE split_loop(_, _, _)
split_loop(s, cur, acc) ==
    IF s = <<>> THEN (IF cur = <<>> THEN acc ELSE Append(acc, cur))
    ELSE IF IsSpace(s[1])
    THEN split_loop(Tail(s), <<>>, IF cur = <<>> THEN acc ELSE Append(acc, cur))
    ELSE split_loop(Tail(s), Append(cur, s[1]), acc)

split(s) == split_loop(s, <<>>, <<>>)

\* ' '.join(words)
RECURSIVE join_sp(_)
join_sp(ws) ==
    IF ws = <<>> THEN <<>>
    ELSE IF Len(ws) = 1 THEN ws[1]
    ELSE ws[1] \o <<" ">> \o join_sp(Tail(ws))

-----------------------------------------------------------------------------
(* Characters and their code points.  A character that cannot be written   *)
(* in a string here is the one-character token "U+" followed by its code   *)
(* point in upper-case hexadecimal, of four digits or more.                *)

\* the printable ASCII characters, from code point 32 to 126; the grave
\* accent is the token U+0060
Printable ==
    <<" ", "!", "\"", "#", "$", "%", "&", "'", "(", ")", "*", "+", ",",
      "-", ".", "/", "0", "1", "2", "3", "4", "5", "6", "7", "8", "9", ":",
      ";", "<", "=", ">", "?", "@", "A", "B", "C", "D", "E", "F", "G", "H",
      "I", "J", "K", "L", "M", "N", "O", "P", "Q", "R", "S", "T", "U", "V",
      "W", "X", "Y", "Z", "[", "\\", "]", "^", "_", "U+0060", "a", "b",
      "c", "d", "e", "f", "g", "h", "i", "j", "k", "l", "m", "n", "o", "p",
      "q", "r", "s", "t", "u", "v", "w", "x", "y", "z", "{", "|", "}", "~">>

HexUpper == <<"0", "1", "2", "3", "4", "5", "6", "7", "8", "9",
              "A", "B", "C", "D", "E", "F">>
HexLower == <<"0", "1", "2", "3", "4", "5", "6", "7", "8", "9",
              "a", "b", "c", "d", "e", "f">>

\* the upper-case hexadecimal digits of n, as one string
RECURSIVE HexName(_)
HexName(n) ==
    IF n < 16 THEN HexUpper[n + 1]
    ELSE HexName(n \div 16) \o HexUpper[(n % 16) + 1]

\* unichr(n)
Chr(n) ==
    IF n >= 32 /\ n <= 126 THEN Printable[n - 31]
    ELSE IF n = 9 THEN "\t"
    ELSE IF n = 10 THEN LF
    ELSE IF n = 12 THEN FF
    ELSE IF n = 13 THEN CR
    ELSE IF n < 16 THEN "U+000" \o HexName(n)
    ELSE IF n < 256 THEN "U+00" \o HexName(n)
    ELSE IF n < 4096 THEN "U+0" \o HexName(n)
    ELSE "U+" \o HexName(n)

\* ord(c)
Ord(c) ==
    IF \E i \in 1..Len(Printable) : Printable[i] = c
    THEN 31 + (CHOOSE i \in 1..Len(Printable) : Printable[i] = c)
    ELSE CHOOSE n \in 0..1114111 : Chr(n) = c

\* the characters of ASCII
AsciiChars == {Chr(n) : n \in 0..127}

\* A character outside ASCII stands for a unicode object that str.format
\* cannot encode: formatting it raises UnicodeEncodeError.  NonAscii is
\* one such character, Chr(233).
NonAscii == "U+00E9"
Encodable(s) == \A i \in 1..Len(s) : s[i] \in AsciiChars

-----------------------------------------------------------------------------
(* Protocol words.                                                         *)

W_set == <<"s", "e", "t">>
W_add == <<"a", "d", "d">>
W_replace == <<"r", "e", "p", "l", "a", "c", "e">>
W_append == <<"a", "p", "p", "e", "n", "d">>
W_prepend == <<"p", "r", "e", "p", "e", "n", "d">>
W_cas == <<"c", "a", "s">>
W_get == <<"g", "e", "t">>
W_gets == <<"g", "e", "t", "s">>
W_delete == <<"d", "e", "l", "e", "t", "e">>
W_incr == <<"i", "n", "c", "r">>
W_decr == <<"d", "e", "c", "r">>
W_touch == <<"t", "o", "u", "c", "h">>
W_flush_all == <<"f", "l", "u", "s", "h", "_", "a", "l", "l">>
W_quit == <<"q", "u", "i", "t">>
W_noreply == <<" ", "n", "o", "r", "e", "p", "l", "y">>
W_STORED == <<"S", "T", "O", "R", "E", "D">>
W_NOT_STORED == <<"N", "O", "T", "_", "S", "T", "O", "R", "E", "D">>
W_EXISTS == <<"E", "X", "I", "S", "T", "S">>
W_NOT_FOUND == <<"N", "O", "T", "_", "F", "O", "U", "N", "D">>
W_DELETED == <<"D", "E", "L", "E", "T", "E", "D">>
W_OK == <<"O", "K">>
W_END == <<"E", "N", "D">>
W_VALUE == <<"V", "A", "L", "U", "E">>
W_ERROR == <<"E", "R", "R", "O", "R">>
W_CLIENT_ERROR == <<"C", "L", "I", "E", "N", "T", "_", "E", "R", "R", "O", "R">>
W_SERVER_ERROR == <<"S", "E", "R", "V", "E", "R", "_", "E", "R", "R", "O", "R">>

\* a table that takes every reply of the store family from every command
valid_results_shared ==
    [n \in {"set", "add", "replace", "append", "prepend", "cas"} |->
        {W_STORED, W_NOT_STORED, W_EXISTS, W_NOT_FOUND}]

VALID_STORE_RESULTS ==
    [set     |-> {W_STORED},
     add     |-> {W_STORED, W_NOT_STORED},
     replace |-> {W_STORED, W_NOT_STORED},
     append  |-> {W_STORED, W_NOT_STORED},
     prepend |-> {W_STORED, W_NOT_STORED},
     cas     |-> {W_STORED, W_EXISTS, W_NOT_FOUND}]

\* the command name as it is written on the wire
NameChars ==
    [set |-> W_set, add |-> W_add, replace |-> W_replace,
     append |-> W_append, prepend |-> W_prepend, cas |-> W_cas,
     get |-> W_get, gets |-> W_gets, delete |-> W_delete,
     incr |-> W_incr, decr |-> W_decr, touch |-> W_touch,
     flush_all |-> W_flush_all, quit |-> W_quit]

-----------------------------------------------------------------------------
(* The Client object: self.sock, self.buf, and the bytes its connection    *)
(* (the one it has, or when it has none the next one it makes) will        *)
(* deliver.  A call's environment is whether connect and sendall succeed   *)
(* and where the stream is cut into the chunks recv returns.               *)

None == "None"
Socket == "socket"

St(s, b, n) == [sock |-> s, buf |-> b, net |-> n]

\* What json.loads returns: kind is the type of the object ("unicode",
\* "int" for an int or a long, "float", "bool", "NoneType", "list" or
\* "dict"); text is the characters of a unicode, the decimal digits of an
\* int, the literal of a float as it was written, and True or False;
\* items is the elements of a list, and for a dict each key followed by
\* its value, the order of the keys having no meaning.
JNode(kind, text, items) == [kind |-> kind, text |-> text, items |-> items]

\* no object: the value is a str, or there is none
NoObj == JNode("", <<>>, <<>>)

\* the values a call returns: None, a str, an int, a (value, cas) pair,
\* the (None, None) of gets, a dict as a set of <<key, value, cas, obj>>,
\* and, when the deserializer made an object of the value, that object
\* in obj, alone or in a pair
RetNone ==
    [kind |-> "None", val |-> <<>>, cas |-> <<>>, map |-> {}, obj |-> NoObj]
RetStr(v) ==
    [kind |-> "str", val |-> v, cas |-> <<>>, map |-> {}, obj |-> NoObj]
RetInt(n) ==
    [kind |-> "int", val |-> DecStr(n), cas |-> <<>>, map |-> {},
     obj |-> NoObj]
RetPair(v, c) ==
    [kind |-> "pair", val |-> v, cas |-> c, map |-> {}, obj |-> NoObj]
RetNonePair ==
    [kind |-> "nonepair", val |-> <<>>, cas |-> <<>>, map |-> {},
     obj |-> NoObj]
RetDict(m) ==
    [kind |-> "dict", val |-> <<>>, cas |-> <<>>, map |-> m, obj |-> NoObj]
\* an object that can also be returned otherwise is that same value: None
\* is the None of a miss, an int is the int of incr and decr, and an
\* empty dict is the empty dict of a fetch
RetObj(o) ==
    IF o.kind = "NoneType" THEN RetNone
    ELSE IF o.kind = "int"
    THEN [kind |-> "int", val |-> o.text, cas |-> <<>>, map |-> {},
          obj |-> NoObj]
    ELSE IF o.kind = "dict" /\ o.items = <<>> THEN RetDict({})
    ELSE [kind |-> "obj", val |-> <<>>, cas |-> <<>>, map |-> {}, obj |-> o]
RetObjPair(o, c) ==
    [kind |-> "objpair", val |-> <<>>, cas |-> c, map |-> {}, obj |-> o]

\* How a call ends: the object's state, the exception that reaches the
\* caller ("" when the call returns) with its argument and the place it
\* was raised, the value returned, the bytes given to sendall, the number
\* of recv calls and of _connect calls made, and the exception that
\* ignore_exc kept from the caller ("" when there is none).
Outcome(st, e, a, where, r, tx, nr, nc) ==
    [st |-> st, exc |-> e, arg |-> a, stage |-> where, ret |-> r,
     sent |-> tx, nrecv |-> nr, connects |-> nc, swallowed |-> ""]

\* the stream s cut after each position in cuts
RECURSIVE chunk_from(_, _, _)
chunk_from(s, cuts, start) ==
    LET later == {c \in cuts : c >= start /\ c < Len(s)} IN
    IF start > Len(s) THEN <<>>
    ELSE IF later = {} THEN <<SubSeq(s, start, Len(s))>>
    ELSE LET c == CHOOSE x \in later : \A y \in later : x <= y
         IN  <<SubSeq(s, start, c)>> \o chunk_from(s, cuts, c + 1)

Chunk(s, cuts) == chunk_from(s, cuts, 1)

\* the chunks the socket delivers during a call: the stream as it is cut,
\* less the last chunk when the connection is lost before that one comes
Arriving(st, env) ==
    LET ch == Chunk(st.net, env.cuts)
    IN  IF env.lost THEN SubSeq(ch, 1, Len(ch) - 1) ELSE ch

\* what is left of the stream after a call that received all but the
\* chunks in rest: a call that ends without waiting for the last chunk
\* leaves it, lost or not, to the next call
Remaining(st, env, rest) ==
    LET ch == Chunk(st.net, env.cuts)
    IN  join(rest) \o (IF env.lost THEN ch[Len(ch)] ELSE <<>>)

\* Client.close
close_keeps_buf(st) ==
    St(None, st.buf, IF st.sock = None THEN st.net ELSE <<>>)

close_keeps_sock(st) == St(st.sock, <<>>, st.net)

close(st) ==
    St(None, <<>>, IF st.sock = None THEN st.net ELSE <<>>)

\* Client._connect: socket.connect may raise socket.error
_connect(st, ok) ==
    IF ok THEN [st |-> [st EXCEPT !.sock = Socket], exc |-> ""]
    ELSE [st |-> st, exc |-> "socket.error"]

\* a client that opens a connection at every operation
connect_always(st, env) ==
    LET c == _connect(st, env.connect_ok)
    IN  [st |-> c.st, exc |-> c.exc, connects |-> 1]

\* "if not self.sock: self._connect()"
ensure_connected(st, env) ==
    IF st.sock = None
    THEN LET c == _connect(st, env.connect_ok)
         IN  [st |-> c.st, exc |-> c.exc, connects |-> 1]
    ELSE [st |-> st, exc |-> "", connects |-> 0]

\* a _raise_errors that gives the whole line as the detail
raise_errors_whole_line(line, name) ==
    IF startswith(line, W_ERROR)
    THEN [exc |-> "MemcacheUnknownCommandError", arg |-> NameChars[name]]
    ELSE IF startswith(line, W_CLIENT_ERROR)
    THEN [exc |-> "MemcacheClientError", arg |-> line]
    ELSE IF startswith(line, W_SERVER_ERROR)
    THEN [exc |-> "MemcacheServerError", arg |-> line]
    ELSE [exc |-> "", arg |-> <<>>]

\* Client._raise_errors
_raise_errors(line, name) ==
    IF startswith(line, W_ERROR)
    THEN [exc |-> "MemcacheUnknownCommandError", arg |-> NameChars[name]]
    ELSE IF startswith(line, W_CLIENT_ERROR)
    THEN [exc |-> "MemcacheClientError",
          arg |-> PyFrom(line, find(line, <<" ">>) + 1)]
    ELSE IF startswith(line, W_SERVER_ERROR)
    THEN [exc |-> "MemcacheServerError",
          arg |-> PyFrom(line, find(line, <<" ">>) + 1)]
    ELSE [exc |-> "", arg |-> <<>>]

\* Client._misc_cmd
_misc_cmd(st, cmd, cmd_name, noreply, env) ==
    LET c == ensure_connected(st, env) IN
    IF c.exc # ""
    THEN Outcome(c.st, c.exc, <<>>, "connect", RetNone, <<>>, 0, c.connects)
    ELSE IF ~env.send_ok
    THEN Outcome(close(c.st), "socket.error", <<>>, "send", RetNone,
                 <<>>, 0, c.connects)
    ELSE IF noreply
    THEN Outcome(c.st, "", <<>>, "", RetNone, cmd, 0, c.connects)
    ELSE LET r  == _readline(Arriving(c.st, env), <<>>)
             s1 == [c.st EXCEPT !.net = Remaining(c.st, env, r.sock)]
             e  == _raise_errors(r.data, cmd_name)
         IN  IF r.exc # ""
             THEN Outcome(close(s1), r.exc, <<>>, "readline", RetNone,
                          cmd, r.nrecv, c.connects)
             ELSE IF e.exc # ""
             THEN Outcome(close(s1), e.exc, e.arg, "classify", RetNone,
                          cmd, r.nrecv, c.connects)
             ELSE Outcome(s1, "", <<>>, "", RetStr(r.data),
                          cmd, r.nrecv, c.connects)

\* raised while the caller formats the command, before _misc_cmd is called
EncodeFailure(st) ==
    Outcome(st, "UnicodeEncodeError", <<>>, "encode", RetNone, <<>>, 0, 0)

Suffix(noreply) == IF noreply THEN W_noreply ELSE <<>>

\* a delete that waits for the reply also under noreply
delete_waits(st, key, noreply, env) ==
    IF ~Encodable(key) THEN EncodeFailure(st)
    ELSE _misc_cmd(st, W_delete \o <<" ">> \o key \o Suffix(noreply) \o CRLF,
                   "delete", FALSE, env)

\* Client.delete
delete(st, key, noreply, env) ==
    IF ~Encodable(key) THEN EncodeFailure(st)
    ELSE _misc_cmd(st, W_delete \o <<" ">> \o key \o Suffix(noreply) \o CRLF,
                   "delete", noreply, env)

\* a tail of incr and decr that returns the reply line as it is
arith_result_raw(r, noreply) ==
    IF r.exc # "" THEN r
    ELSE IF noreply THEN [r EXCEPT !.ret = RetNone]
    ELSE r

\* the tail of Client.incr and Client.decr: None, 'NOT_FOUND' or int(result)
arith_result(r, noreply) ==
    IF r.exc # "" THEN r
    ELSE IF noreply THEN [r EXCEPT !.ret = RetNone]
    ELSE IF r.ret.val = W_NOT_FOUND THEN r
    ELSE LET n == PyInt(r.ret.val)
         IN  IF n.ok THEN [r EXCEPT !.ret = RetInt(n.val)]
             ELSE [r EXCEPT !.exc = "ValueError", !.stage = "convert",
                            !.ret = RetNone]

\* Client.incr
incr(st, key, value, noreply, env) ==
    IF ~Encodable(key) THEN EncodeFailure(st)
    ELSE arith_result(
             _misc_cmd(st, W_incr \o <<" ">> \o key \o <<" ">> \o DecStr(value)
                           \o Suffix(noreply) \o CRLF,
                       "incr", noreply, env),
             noreply)

\* Client.decr
decr(st, key, value, noreply, env) ==
    IF ~Encodable(key) THEN EncodeFailure(st)
    ELSE arith_result(
             _misc_cmd(st, W_decr \o <<" ">> \o key \o <<" ">> \o DecStr(value)
                           \o Suffix(noreply) \o CRLF,
                       "decr", noreply, env),
             noreply)

\* Client.touch
touch(st, key, expire, noreply, env) ==
    IF ~Encodable(key) THEN EncodeFailure(st)
    ELSE _misc_cmd(st, W_touch \o <<" ">> \o key \o <<" ">> \o DecStr(expire)
                       \o Suffix(noreply) \o CRLF,
                   "touch", noreply, env)

\* Client.flush_all
flush_all(st, delay, noreply, env) ==
    _misc_cmd(st, W_flush_all \o <<" ">> \o DecStr(delay)
                  \o Suffix(noreply) \o CRLF,
              "flush_all", noreply, env)

\* a quit that leaves the closing to the server
quit_without_close(st, env) ==
    _misc_cmd(st, W_quit \o CRLF, "quit", TRUE, env)

\* Client.quit
quit(st, env) ==
    LET r == _misc_cmd(st, W_quit \o CRLF, "quit", TRUE, env)
    IN  IF r.exc # "" THEN r ELSE [r EXCEPT !.st = close(r.st)]

-----------------------------------------------------------------------------
(* json.dumps and json.loads, as serialize_json and deserialize_json of    *)
(* the class documentation call them.  A str is a sequence of characters   *)
(* that str.format can encode; a sequence with a character outside ASCII   *)
(* is a unicode object.                                                    *)

\* "%04x" % n
RECURSIVE hex_lower(_, _)
hex_lower(n, width) ==
    IF width <= 1 /\ n < 16 THEN <<HexLower[n + 1]>>
    ELSE hex_lower(n \div 16, width - 1) \o <<HexLower[(n % 16) + 1]>>

\* the escape of one character under ensure_ascii: the short escapes, the
\* printable ASCII characters as they are, and \uXXXX for the others, as
\* a surrogate pair above U+FFFF
json_escape_char(c, n) ==
    IF c = "\"" THEN <<"\\", "\"">>
    ELSE IF c = "\\" THEN <<"\\", "\\">>
    ELSE IF n >= 32 /\ n <= 126 THEN <<c>>
    ELSE IF n = 8 THEN <<"\\", "b">>
    ELSE IF n = 9 THEN <<"\\", "t">>
    ELSE IF n = 10 THEN <<"\\", "n">>
    ELSE IF n = 12 THEN <<"\\", "f">>
    ELSE IF n = 13 THEN <<"\\", "r">>
    ELSE IF n < 65536 THEN <<"\\", "u">> \o hex_lower(n, 4)
    ELSE <<"\\", "u">> \o hex_lower(55296 + ((n - 65536) \div 1024), 4)
         \o <<"\\", "u">> \o hex_lower(56320 + ((n - 65536) % 1024), 4)

RECURSIVE json_escape(_)
json_escape(s) ==
    IF s = <<>> THEN <<>>
    ELSE json_escape_char(s[1], Ord(s[1])) \o json_escape(Tail(s))

\* json.dumps(value) for a unicode value
json_dumps(value) == <<"\"">> \o json_escape(value) \o <<"\"">>

\* The scanner's result: the object and the index that follows it.
Parsed(node, end) == [ok |-> TRUE, node |-> node, end |-> end]
NotParsed == [ok |-> FALSE, node |-> NoObj, end |-> 0]

\* the index of the first character at or after i that is not one of the
\* four whitespace characters of JSON
RECURSIVE json_ws(_, _)
json_ws(s, i) ==
    IF i <= Len(s) /\ s[i] \in {" ", "\t", LF, CR} THEN json_ws(s, i + 1)
    ELSE i

\* s[i:i + len(w)] == w
json_at(s, i, w) ==
    i + Len(w) - 1 <= Len(s) /\ SubSeq(s, i, i + Len(w) - 1) = w

\* the index that follows the digits that start at i
RECURSIVE json_digits(_, _)
json_digits(s, i) ==
    IF i <= Len(s) /\ IsDigit(s[i]) THEN json_digits(s, i + 1) ELSE i

IsHex(c) ==
    \E i \in 1..16 : HexLower[i] = c \/ HexUpper[i] = c
HexVal(c) ==
    (CHOOSE i \in 1..16 : HexLower[i] = c \/ HexUpper[i] = c) - 1

\* the four hexadecimal digits of a \uXXXX escape, at i
json_u4(s, i) ==
    IF i + 3 <= Len(s) /\ \A j \in i..(i + 3) : IsHex(s[j])
    THEN [ok |-> TRUE,
          val |-> 4096 * HexVal(s[i]) + 256 * HexVal(s[i + 1])
                  + 16 * HexVal(s[i + 2]) + HexVal(s[i + 3])]
    ELSE [ok |-> FALSE, val |-> 0]

\* a number at i: -?(0|[1-9][0-9]*) and then an optional fraction and an
\* optional exponent, either of which makes it a float; the digits of an
\* int are those of str(int(...)), which are the ones written, but for -0
json_number(s, i) ==
    LET j == IF i <= Len(s) /\ s[i] = "-" THEN i + 1 ELSE i
        k == IF s[j] = "0" THEN j + 1 ELSE json_digits(s, j)
        f == IF k + 1 <= Len(s) /\ s[k] = "." /\ IsDigit(s[k + 1])
             THEN json_digits(s, k + 1) ELSE k
        g == IF f + 1 <= Len(s) /\ s[f + 1] \in {"+", "-"}
             THEN f + 2 ELSE f + 1
        e == IF f <= Len(s) /\ s[f] \in {"e", "E"}
                /\ g <= Len(s) /\ IsDigit(s[g])
             THEN json_digits(s, g) ELSE f
    IN  IF ~(j <= Len(s) /\ IsDigit(s[j])) THEN NotParsed
        ELSE IF e = k
        THEN Parsed(JNode("int", IF SubSeq(s, i, k - 1) = <<"-", "0">>
                                 THEN <<"0">> ELSE SubSeq(s, i, k - 1),
                          <<>>), k)
        ELSE Parsed(JNode("float", SubSeq(s, i, e - 1), <<>>), e)

\* the characters of a string up to its closing quote, i being the index
\* after the opening quote or after what has been read into acc
RECURSIVE json_string(_, _, _)

\* a \uXXXX escape whose digits are at i; a high surrogate followed by
\* the escape of a low one is the character of the pair
json_unicode(s, i, acc, u, u2) ==
    IF ~u.ok THEN NotParsed
    ELSE IF u.val >= 55296 /\ u.val <= 56319
            /\ json_at(s, i + 4, <<"\\", "u">>)
    THEN (IF ~u2.ok THEN NotParsed
          ELSE IF u2.val >= 56320 /\ u2.val <= 57343
          THEN json_string(s, i + 10,
                           Append(acc, Chr(65536 + 1024 * (u.val - 55296)
                                           + (u2.val - 56320))))
          ELSE json_string(s, i + 4, Append(acc, Chr(u.val))))
    ELSE json_string(s, i + 4, Append(acc, Chr(u.val)))

\* the escape whose character after the backslash is at i
json_backslash(s, i, acc) ==
    IF i > Len(s) THEN NotParsed
    ELSE IF s[i] = "u"
    THEN json_unicode(s, i + 1, acc, json_u4(s, i + 1), json_u4(s, i + 7))
    ELSE IF s[i] \in {"\"", "\\", "/"}
    THEN json_string(s, i + 1, Append(acc, s[i]))
    ELSE IF s[i] = "b" THEN json_string(s, i + 1, Append(acc, Chr(8)))
    ELSE IF s[i] = "f" THEN json_string(s, i + 1, Append(acc, FF))
    ELSE IF s[i] = "n" THEN json_string(s, i + 1, Append(acc, LF))
    ELSE IF s[i] = "r" THEN json_string(s, i + 1, Append(acc, CR))
    ELSE IF s[i] = "t" THEN json_string(s, i + 1, Append(acc, "\t"))
    ELSE NotParsed

json_string(s, i, acc) ==
    IF i > Len(s) THEN NotParsed
    ELSE IF s[i] = "\"" THEN Parsed(JNode("unicode", acc, <<>>), i + 1)
    ELSE IF s[i] = "\\" THEN json_backslash(s, i + 1, acc)
    ELSE IF Ord(s[i]) < 32 THEN NotParsed
    ELSE json_string(s, i + 1, Append(acc, s[i]))

\* d[key] = value on the items of a dict
RECURSIVE json_put(_, _, _)
json_put(items, key, value) ==
    IF items = <<>> THEN <<key, value>>
    ELSE IF items[1] = key THEN <<key, value>> \o SubSeq(items, 3, Len(items))
    ELSE <<items[1], items[2]>>
         \o json_put(SubSeq(items, 3, Len(items)), key, value)

RECURSIVE json_value(_, _)
RECURSIVE json_array(_, _, _)
RECURSIVE json_object(_, _, _)

\* the element v of a list has been read: after it "]" ends the list and
\* "," goes on to the next element
json_array_next(s, items, v) ==
    LET j == json_ws(s, v.end)
    IN  IF ~v.ok THEN NotParsed
        ELSE IF j > Len(s) THEN NotParsed
        ELSE IF s[j] = "]"
        THEN Parsed(JNode("list", <<>>, Append(items, v.node)), j + 1)
        ELSE IF s[j] # "," THEN NotParsed
        ELSE json_array(s, json_ws(s, j + 1), Append(items, v.node))

\* the elements of a list from i on
json_array(s, i, items) == json_array_next(s, items, json_value(s, i))

\* the value v of the key k has been read: after it "}" ends the dict and
\* "," goes on to the next key
json_object_next(s, items, k, v) ==
    LET j == json_ws(s, v.end)
    IN  IF ~v.ok THEN NotParsed
        ELSE IF j > Len(s) THEN NotParsed
        ELSE IF s[j] = "}"
        THEN Parsed(JNode("dict", <<>>, json_put(items, k.node, v.node)),
                    j + 1)
        ELSE IF s[j] # "," THEN NotParsed
        ELSE json_object(s, json_ws(s, j + 1),
                         json_put(items, k.node, v.node))

\* the key k has been read: after it comes ":" and then the value
json_object_key(s, items, k) ==
    LET j == json_ws(s, k.end)
    IN  IF ~k.ok THEN NotParsed
        ELSE IF j > Len(s) THEN NotParsed
        ELSE IF s[j] # ":" THEN NotParsed
        ELSE json_object_next(s, items, k,
                              json_value(s, json_ws(s, j + 1)))

\* the keys and values of a dict from i on, where a key has to start
json_object(s, i, items) ==
    IF i > Len(s) THEN NotParsed
    ELSE IF s[i] # "\"" THEN NotParsed
    ELSE json_object_key(s, items, json_string(s, i + 1, <<>>))

\* what follows the opening bracket of a list or a dict, from i on
json_open(s, i, closing, kind) ==
    IF json_at(s, i, <<closing>>)
    THEN Parsed(JNode(kind, <<>>, <<>>), i + 1)
    ELSE IF kind = "list" THEN json_array(s, i, <<>>)
    ELSE json_object(s, i, <<>>)

\* the object that starts at i
json_value(s, i) ==
    IF i > Len(s) THEN NotParsed
    ELSE IF s[i] = "\"" THEN json_string(s, i + 1, <<>>)
    ELSE IF s[i] = "{" THEN json_open(s, json_ws(s, i + 1), "}", "dict")
    ELSE IF s[i] = "[" THEN json_open(s, json_ws(s, i + 1), "]", "list")
    ELSE IF json_at(s, i, <<"n", "u", "l", "l">>)
    THEN Parsed(JNode("NoneType", <<>>, <<>>), i + 4)
    ELSE IF json_at(s, i, <<"t", "r", "u", "e">>)
    THEN Parsed(JNode("bool", <<"T", "r", "u", "e">>, <<>>), i + 4)
    ELSE IF json_at(s, i, <<"f", "a", "l", "s", "e">>)
    THEN Parsed(JNode("bool", <<"F", "a", "l", "s", "e">>, <<>>), i + 5)
    ELSE IF json_at(s, i, <<"N", "a", "N">>)
    THEN Parsed(JNode("float", <<"N", "a", "N">>, <<>>), i + 3)
    ELSE IF json_at(s, i, <<"I", "n", "f", "i", "n", "i", "t", "y">>)
    THEN Parsed(JNode("float", SubSeq(s, i, i + 7), <<>>), i + 8)
    ELSE IF json_at(s, i, <<"-", "I", "n", "f", "i", "n", "i", "t", "y">>)
    THEN Parsed(JNode("float", SubSeq(s, i, i + 8), <<>>), i + 9)
    ELSE json_number(s, i)

\* json.loads(s): one object with whitespace around it, and ValueError for
\* anything else
json_loads(s) ==
    LET v == json_value(s, json_ws(s, 1))
    IN  IF ~v.ok THEN [exc |-> "ValueError", value |-> <<>>, obj |-> NoObj]
        ELSE IF json_ws(s, v.end) # Len(s) + 1
        THEN [exc |-> "ValueError", value |-> <<>>, obj |-> NoObj]
        ELSE [exc |-> "", value |-> <<>>, obj |-> v.node]

-----------------------------------------------------------------------------
(* The serialization hooks of the class documentation (serialize_json and  *)
(* deserialize_json).                                                      *)

\* serializer(key, value): a str is stored as it is with flags 1, and any
\* other value as its JSON text with flags 2
serializer(key, value) ==
    IF Encodable(value) THEN [data |-> value, flags |-> 1]
    ELSE [data |-> json_dumps(value), flags |-> 2]

\* deserializer(key, value, flags): flags 1 is a plain str; flags 2 is JSON
\* text, and the result is the object json.loads makes of it; other flags
\* are unknown.  The result is the str in value when obj is NoObj.
deserializer(key, value, flags) ==
    IF flags = 1 THEN [exc |-> "", value |-> value, obj |-> NoObj]
    ELSE IF flags = 2 THEN json_loads(value)
    ELSE [exc |-> "Exception", value |-> <<>>, obj |-> NoObj]

-----------------------------------------------------------------------------
(* Client._store_cmd.  cas is the token's characters, <<>> for None.  A    *)
(* token that str.format cannot encode raises UnicodeEncodeError where     *)
(* extra is built, before the try block that turns the same failure of     *)
(* the key or the data into MemcacheClientError.                           *)

\* an extra part that puts noreply before the cas token
store_extra_noreply_first(cas, noreply) ==
    IF cas # <<>> /\ noreply THEN W_noreply \o <<" ">> \o cas
    ELSE IF cas # <<>> /\ ~noreply THEN <<" ">> \o cas
    ELSE IF cas = <<>> /\ noreply THEN W_noreply
    ELSE <<>>

store_extra(cas, noreply) ==
    IF cas # <<>> /\ noreply THEN <<" ">> \o cas \o W_noreply
    ELSE IF cas # <<>> /\ ~noreply THEN <<" ">> \o cas
    ELSE IF cas = <<>> /\ noreply THEN W_noreply
    ELSE <<>>

store_format(name, key, flags, expire, data, extra) ==
    NameChars[name] \o <<" ">> \o key \o <<" ">> \o DecStr(flags) \o <<" ">>
        \o DecStr(expire) \o <<" ">> \o DecStr(Len(data)) \o extra \o CRLF
        \o data \o CRLF

_store_cmd(st, c, name, key, expire, noreply, data, cas, env) ==
    LET k     == ensure_connected(st, env)
        ser   == IF c.serde THEN serializer(key, data)
                 ELSE [data |-> data, flags |-> 0]
        extra == store_extra(cas, noreply)
        cmd   == store_format(name, key, ser.flags, expire, ser.data, extra)
    IN
    IF k.exc # ""
    THEN Outcome(k.st, k.exc, <<>>, "connect", RetNone, <<>>, 0, k.connects)
    ELSE IF ~Encodable(cas)
    THEN Outcome(k.st, "UnicodeEncodeError", <<>>, "encode", RetNone,
                 <<>>, 0, k.connects)
    ELSE IF ~(Encodable(key) /\ Encodable(ser.data))
    THEN Outcome(k.st, "MemcacheClientError", <<>>, "encode", RetNone,
                 <<>>, 0, k.connects)
    ELSE IF ~env.send_ok
    THEN Outcome(close(k.st), "socket.error", <<>>, "send", RetNone,
                 <<>>, 0, k.connects)
    ELSE IF noreply
    THEN Outcome(k.st, "", <<>>, "", RetNone, cmd, 0, k.connects)
    ELSE LET r  == _readline(Arriving(k.st, env), k.st.buf)
             s1 == [k.st EXCEPT !.net = Remaining(k.st, env, r.sock)]
             s2 == [s1 EXCEPT !.buf = r.buf]
             e  == _raise_errors(r.data, name)
         IN  IF r.exc # ""
             THEN Outcome(close(s1), r.exc, <<>>, "readline", RetNone,
                          cmd, r.nrecv, k.connects)
             ELSE IF e.exc # ""
             THEN Outcome(close(s2), e.exc, e.arg, "classify", RetNone,
                          cmd, r.nrecv, k.connects)
             ELSE IF r.data \in VALID_STORE_RESULTS[name]
             THEN Outcome(s2, "", <<>>, "", RetStr(r.data),
                          cmd, r.nrecv, k.connects)
             ELSE Outcome(close(s2), "MemcacheUnknownError", PyTo(r.data, 32),
                          "validate", RetNone, cmd, r.nrecv, k.connects)

-----------------------------------------------------------------------------
(* Client.set_many and Client.delete_many.  values is the dict's items in  *)
(* the order values.items() yields them, as pairs <<key, value>>; envs     *)
(* holds the environment of each call the loop makes, in order.  A batch   *)
(* ends with the outcomes of the calls it made in calls.                   *)

\* Client.set
set(st, c, key, value, expire, noreply, env) ==
    _store_cmd(st, c, "set", key, expire, noreply, value, <<>>, env)

\* the loop has run to its end: the helper returns None
BatchDone(st, calls) ==
    [st |-> st, exc |-> "", arg |-> <<>>, stage |-> "", calls |-> calls]

\* the call that ended as o raised, and the exception leaves the helper
BatchRaised(o, calls) ==
    [st |-> o.st, exc |-> o.exc, arg |-> o.arg, stage |-> o.stage,
     calls |-> calls]

RECURSIVE set_many_loop(_, _, _, _, _, _, _)

\* a loop that stops after its first set
set_many_first_only(o, c, values, expire, noreply, envs, calls) ==
    IF o.exc # "" THEN BatchRaised(o, Append(calls, o))
    ELSE BatchDone(o.st, Append(calls, o))

\* a loop that ends without a word when a set raises
set_many_quiet(o, c, values, expire, noreply, envs, calls) ==
    IF o.exc # "" THEN BatchDone(o.st, Append(calls, o))
    ELSE set_many_loop(o.st, c, Tail(values), expire, noreply, Tail(envs),
                       Append(calls, o))

\* the set for values[1] ended as o: its exception ends the loop, and
\* otherwise the loop goes on to the next item
set_many_next(o, c, values, expire, noreply, envs, calls) ==
    IF o.exc # "" THEN BatchRaised(o, Append(calls, o))
    ELSE set_many_loop(o.st, c, Tail(values), expire, noreply, Tail(envs),
                       Append(calls, o))

\* for key, value in values.items(): self.set(key, value, expire, noreply)
set_many_loop(st, c, values, expire, noreply, envs, calls) ==
    IF values = <<>> THEN BatchDone(st, calls)
    ELSE set_many_next(set(st, c, values[1][1], values[1][2], expire,
                           noreply, envs[1]),
                       c, values, expire, noreply, envs, calls)

\* Client.set_many
set_many(st, c, values, expire, noreply, envs) ==
    IF values = <<>> THEN BatchDone(st, <<>>)
    ELSE set_many_loop(st, c, values, expire, noreply, envs, <<>>)

RECURSIVE delete_many_loop(_, _, _, _, _)

\* the delete for keys[1] ended as o
delete_many_next(o, keys, noreply, envs, calls) ==
    IF o.exc # "" THEN BatchRaised(o, Append(calls, o))
    ELSE delete_many_loop(o.st, Tail(keys), noreply, Tail(envs),
                          Append(calls, o))

\* for key in keys: self.delete(key, noreply)
delete_many_loop(st, keys, noreply, envs, calls) ==
    IF keys = <<>> THEN BatchDone(st, calls)
    ELSE delete_many_next(delete(st, keys[1], noreply, envs[1]),
                          keys, noreply, envs, calls)

\* Client.delete_many
delete_many(st, keys, noreply, envs) ==
    IF keys = <<>> THEN BatchDone(st, <<>>)
    ELSE delete_many_loop(st, keys, noreply, envs, <<>>)

-----------------------------------------------------------------------------
(* Client._fetch_cmd.  The result dict is a set of <<key, value, cas,      *)
(* obj>>, cas being <<>> when the command is get, and obj the object the   *)
(* deserializer made of the value, NoObj when the value is a str.          *)

FetchRes(e, a, where, s, b, result, nr) ==
    [exc |-> e, arg |-> a, stage |-> where, sock |-> s, buf |-> b,
     result |-> result, nrecv |-> nr]

\* result[key] = entry
dict_set(result, key, value, cas, obj) ==
    {t \in result : t[1] # key} \cup {<<key, value, cas, obj>>}

\* the "while True" loop of _fetch_cmd, up to its return or the exception
\* that leaves the try block, one operator for each step of an iteration
RECURSIVE fetch_loop(_, _, _, _, _, _, _)

\* result[key] = value, or (value, cas), and the next iteration
fetch_entry(f, v, d, result, c, name, expect_cas, n2) ==
    IF d.exc # ""
    THEN FetchRes(d.exc, <<>>, "deserialize", v.sock, v.buf, result, n2)
    ELSE fetch_loop(v.sock, v.buf,
                    dict_set(result, f[2], d.value,
                             IF expect_cas THEN f[5] ELSE <<>>, d.obj),
                    c, name, expect_cas, n2)

\* "if self.deserializer: value = self.deserializer(key, value, int(flags))"
fetch_value(r, f, v, fl, result, c, name, expect_cas, n1) ==
    IF v.exc # ""
    THEN FetchRes(v.exc, <<>>, "readvalue", v.sock, r.buf, result,
                  n1 + v.nrecv)
    ELSE fetch_entry(f, v,
                     IF c.serde
                     THEN (IF fl.ok THEN deserializer(f[2], v.data, fl.val)
                           ELSE [exc |-> "ValueError", value |-> <<>>,
                                 obj |-> NoObj])
                     ELSE [exc |-> "", value |-> v.data, obj |-> NoObj],
                     result, c, name, expect_cas, n1 + v.nrecv)

\* "self.buf, value = _readvalue(self.sock, self.buf, int(size))"
fetch_sized(r, f, size, result, c, name, expect_cas, n1) ==
    IF ~size.ok
    THEN FetchRes("ValueError", <<>>, "parse", r.sock, r.buf, result, n1)
    ELSE fetch_value(r, f, _readvalue(r.sock, r.buf, size.val), PyInt(f[3]),
                     result, c, name, expect_cas, n1)

\* the line read is classified: an error reply, END, a VALUE header whose
\* fields are unpacked, or anything else
fetch_line(r, e, f, result, c, name, expect_cas, n1) ==
    IF e.exc # ""
    THEN FetchRes(e.exc, e.arg, "classify", r.sock, r.buf, result, n1)
    ELSE IF r.data = W_END
    THEN FetchRes("", <<>>, "", r.sock, r.buf, result, n1)
    ELSE IF ~startswith(r.data, W_VALUE)
    THEN FetchRes("MemcacheUnknownError", PyTo(r.data, 32), "validate",
                  r.sock, r.buf, result, n1)
    ELSE IF Len(f) # (IF expect_cas THEN 5 ELSE 4)
    THEN FetchRes("ValueError", <<>>, "parse", r.sock, r.buf, result, n1)
    ELSE fetch_sized(r, f, PyInt(f[4]), result, c, name, expect_cas, n1)

\* "self.buf, line = _readline(self.sock, self.buf)"
fetch_read(r, b, result, c, name, expect_cas, nr) ==
    IF r.exc # ""
    THEN FetchRes(r.exc, <<>>, "readline", r.sock, b, result, nr + r.nrecv)
    ELSE fetch_line(r, _raise_errors(r.data, name), split(r.data), result,
                    c, name, expect_cas, nr + r.nrecv)

fetch_loop(s, b, result, c, name, expect_cas, nr) ==
    fetch_read(_readline(s, b), b, result, c, name, expect_cas, nr)

\* how _fetch_cmd ends once its loop has ended with r: "return result", or
\* "except Exception: self.close(); if self.ignore_exc: return {}; raise"
fetch_end(k, r, cmd, c, env) ==
    IF r.exc = ""
    THEN Outcome(St(k.st.sock, r.buf, Remaining(k.st, env, r.sock)),
                 "", <<>>, "", RetDict(r.result), cmd, r.nrecv, k.connects)
    ELSE IF c.ignore_exc
    THEN [Outcome(close(St(k.st.sock, r.buf, Remaining(k.st, env, r.sock))),
                  "", <<>>, r.stage, RetDict({}), cmd, r.nrecv, k.connects)
             EXCEPT !.swallowed = r.exc]
    ELSE Outcome(close(St(k.st.sock, r.buf, Remaining(k.st, env, r.sock))),
                 r.exc, r.arg, r.stage, RetNone, cmd, r.nrecv, k.connects)

\* _fetch_cmd after "if not self.sock: self._connect()" has given k
fetch_connected(k, c, name, keys, expect_cas, env) ==
    IF k.exc # ""
    THEN Outcome(k.st, k.exc, <<>>, "connect", RetNone, <<>>, 0, k.connects)
    ELSE IF \E i \in 1..Len(keys) : ~Encodable(keys[i])
    THEN Outcome(k.st, "MemcacheClientError", <<>>, "encode", RetNone,
                 <<>>, 0, k.connects)
    ELSE IF ~env.send_ok
    THEN (IF c.ignore_exc
          THEN [Outcome(close(k.st), "", <<>>, "send", RetDict({}),
                        <<>>, 0, k.connects)
                   EXCEPT !.swallowed = "socket.error"]
          ELSE Outcome(close(k.st), "socket.error", <<>>, "send", RetNone,
                       <<>>, 0, k.connects))
    ELSE fetch_end(k,
                   fetch_loop(Arriving(k.st, env), k.st.buf, {},
                              c, name, expect_cas, 0),
                   NameChars[name] \o <<" ">> \o join_sp(keys) \o CRLF,
                   c, env)

_fetch_cmd(st, c, name, keys, expect_cas, env) ==
    fetch_connected(ensure_connected(st, env), c, name, keys, expect_cas, env)

\* dict.get(key, default) on the result of a fetch
dict_get(r, key, default, paired) ==
    IF r.exc # "" THEN r
    ELSE IF \E t \in r.ret.map : t[1] = key
    THEN LET t == CHOOSE x \in r.ret.map : x[1] = key
         IN  [r EXCEPT !.ret = IF t[4] = NoObj
                                 THEN (IF paired THEN RetPair(t[2], t[3])
                                       ELSE RetStr(t[2]))
                                 ELSE (IF paired THEN RetObjPair(t[4], t[3])
                                       ELSE RetObj(t[4]))]
    ELSE [r EXCEPT !.ret = default]

\* Client.get
get(st, c, key, env) ==
    dict_get(_fetch_cmd(st, c, "get", <<key>>, FALSE, env),
             key, RetNone, FALSE)

\* a get_many without the "if not keys: return {}"
get_many_always_fetch(st, c, keys, env) ==
    _fetch_cmd(st, c, "get", keys, FALSE, env)

\* Client.get_many
get_many(st, c, keys, env) ==
    IF keys = <<>> THEN Outcome(st, "", <<>>, "", RetDict({}), <<>>, 0, 0)
    ELSE _fetch_cmd(st, c, "get", keys, FALSE, env)

\* Client.gets
gets(st, c, key, env) ==
    dict_get(_fetch_cmd(st, c, "gets", <<key>>, TRUE, env),
             key, RetNonePair, TRUE)

\* Client.gets_many
gets_many(st, c, keys, env) ==
    IF keys = <<>> THEN Outcome(st, "", <<>>, "", RetDict({}), <<>>, 0, 0)
    ELSE _fetch_cmd(st, c, "gets", keys, TRUE, env)

-----------------------------------------------------------------------------
(* What the server may send: the replies of the protocol and, when the     *)
(* stream ends early, any prefix of one.                                   *)

SP == " "

Replies ==
    { W_STORED \o CRLF, W_NOT_STORED \o CRLF, W_EXISTS \o CRLF,
      W_NOT_FOUND \o CRLF, W_DELETED \o CRLF, W_OK \o CRLF, W_END \o CRLF,
      W_ERROR \o CRLF,
      W_CLIENT_ERROR \o <<SP, "x">> \o CRLF,
      W_SERVER_ERROR \o <<SP, "x">> \o CRLF,
      <<"7">> \o CRLF,
      W_VALUE \o <<SP, "k", SP, "1", SP, "1">> \o CRLF \o <<"a">> \o CRLF
          \o W_END \o CRLF,
      W_VALUE \o <<SP, "k", SP, "0", SP, "1", SP, "5">> \o CRLF \o <<"a">>
          \o CRLF \o W_END \o CRLF }


\* a line no command expects, longer than the 32 characters of it that
\* MemcacheUnknownError carries
LongLine == [i \in 1..33 |-> "x"]

\* what the server writes at one time: a reply, or a short reply and the
\* next one, of one line, behind it
Bursts ==
    Replies \cup {r1 \o r2 : r1 \in {r \in Replies : Len(r) <= MaxBacklog},
                             r2 \in {r \in Replies : Len(r) <= MaxBehind}}
            \cup {LongLine \o CRLF}

\* the sets of at most k cut positions in a stream of n bytes
RECURSIVE CutSets(_, _)
CutSets(n, k) ==
    IF k = 0 THEN {{}}
    ELSE LET less == CutSets(n, k - 1)
         IN  less \cup {c \cup {i} : c \in less, i \in 1..(n - 1)}

NoCuts == [connect_ok |-> TRUE, send_ok |-> TRUE, cuts |-> {}, lost |-> FALSE]

\* the environments of a call: connect fails, sendall fails, or both
\* succeed and the stream is cut somehow into the chunks recv returns,
\* the last of which may be lost with the connection (the cuts matter to
\* a call that reads)
EnvsWithin(st, reads, k) ==
    (IF st.sock = None THEN {[NoCuts EXCEPT !.connect_ok = FALSE]} ELSE {})
    \cup {[NoCuts EXCEPT !.send_ok = FALSE]}
    \cup UNION {{[NoCuts EXCEPT !.cuts = c, !.lost = l] :
                     l \in (IF c # {} THEN BOOLEAN ELSE {FALSE})} :
                 c \in (IF reads THEN CutSets(Len(st.net), k) ELSE {{}})}

Envs(st, reads) == EnvsWithin(st, reads, MaxCuts)

\* the environments of the calls of set_many, one after the other: each
\* call meets the connection as the call before left it, no call follows
\* one that raised, and the stream is cut at most k times in all
RECURSIVE SetManyEnvs(_, _, _, _, _, _)
SetManyEnvsAfter(env, o, c, values, expire, noreply, k) ==
    {<<env>> \o envs :
        envs \in (IF o.exc # "" THEN {<<>>}
                  ELSE SetManyEnvs(o.st, c, Tail(values), expire, noreply,
                                   k - Cardinality(env.cuts)))}

SetManyEnvs(st, c, values, expire, noreply, k) ==
    IF values = <<>> THEN {<<>>}
    ELSE IF Len(values) = 1
    THEN {<<env>> :
             env \in EnvsWithin(st, ~noreply /\ Encodable(values[1][1]), k)}
    ELSE UNION {SetManyEnvsAfter(env, set(st, c, values[1][1], values[1][2],
                                          expire, noreply, env),
                                 c, values, expire, noreply, k) :
                   env \in EnvsWithin(st, ~noreply /\ Encodable(values[1][1]),
                                      k)}

\* the environments of the calls of delete_many
RECURSIVE DeleteManyEnvs(_, _, _, _)
DeleteManyEnvsAfter(env, o, keys, noreply, k) ==
    {<<env>> \o envs :
        envs \in (IF o.exc # "" THEN {<<>>}
                  ELSE DeleteManyEnvs(o.st, Tail(keys), noreply,
                                      k - Cardinality(env.cuts)))}

DeleteManyEnvs(st, keys, noreply, k) ==
    IF keys = <<>> THEN {<<>>}
    ELSE IF Len(keys) = 1
    THEN {<<env>> : env \in EnvsWithin(st, ~noreply /\ Encodable(keys[1]), k)}
    ELSE UNION {DeleteManyEnvsAfter(env, delete(st, keys[1], noreply, env),
                                    keys, noreply, k) :
                   env \in EnvsWithin(st, ~noreply /\ Encodable(keys[1]), k)}

Keys == {<<"k">>, <<NonAscii>>}
KeyLists == {<<>>, <<<<"k">>, <<"j">>>>, <<<<NonAscii>>>>}

\* the constructor's arguments: ignore_exc, and whether the serializer and
\* deserializer pair is given
Configs ==
    {[ignore_exc |-> FALSE, serde |-> FALSE],
     [ignore_exc |-> TRUE,  serde |-> TRUE]}

-----------------------------------------------------------------------------
(* The state machine of one Client and its caller.                         *)

\* the places at which a call fails inside its try block, so that its
\* except clause runs
TornStages ==
    {"send", "readline", "readvalue", "classify", "validate", "parse",
     "deserialize"}

\* no call has ended that the caller has not taken; after tells whether
\* the call before failed inside its try block
Idle(after) ==
    [op |-> "idle", noreply |-> FALSE, keys |-> <<>>, exc |-> "",
     arg |-> <<>>, stage |-> "", ret |-> RetNone, sent |-> <<>>,
     nrecv |-> 0, connects |-> 0, pre_sock |-> None, pre_buf |-> <<>>,
     stream |-> <<>>, rcvd |-> <<>>, swallowed |-> "",
     after_failure |-> after, calls |-> <<>>]

RdIdle == [fn |-> "idle", buf |-> <<>>, sock |-> <<>>, size |-> 0,
           name |-> "", out |-> ReadResult("", <<>>, <<>>, <<>>, 0)]

Now == St(sock, buf, net)

Init ==
    /\ sock = None
    /\ buf = <<>>
    /\ net = <<>>
    /\ last = Idle(FALSE)
    /\ cfg \in Configs
    /\ rd = RdIdle

CanCall == last.op = "idle"

\* the call op ends as o: the object takes o's state and the caller gets
\* the value or the exception.  stream is what the socket delivers during
\* the call, rcvd the chunks of it that recv returned.
Finish(op, noreply, keys, env, o) ==
    /\ sock' = o.st.sock
    /\ buf' = o.st.buf
    /\ net' = o.st.net
    /\ last' = [op |-> op, noreply |-> noreply, keys |-> keys,
                exc |-> o.exc, arg |-> o.arg, stage |-> o.stage,
                ret |-> o.ret, sent |-> o.sent, nrecv |-> o.nrecv,
                connects |-> o.connects, pre_sock |-> sock,
                pre_buf |-> buf, stream |-> join(Arriving(Now, env)),
                rcvd |-> LET ch == Arriving(Now, env)
                         IN  SubSeq(ch, 1, Min(o.nrecv, Len(ch))),
                swallowed |-> o.swallowed,
                after_failure |-> last.after_failure, calls |-> <<>>]
    /\ UNCHANGED <<cfg, rd>>

\* the chunks recv returned to a call that made n recv calls
Received(st, env, n) ==
    SubSeq(Arriving(st, env), 1, Min(n, Len(Arriving(st, env))))

\* what the caller of a batch helper can tell of each call the helper made,
\* outs being the outcomes of the calls from the state st on
RECURSIVE CallLog(_, _, _)
CallLog(st, outs, envs) ==
    IF outs = <<>> THEN <<>>
    ELSE <<[exc |-> outs[1].exc, stage |-> outs[1].stage,
            ret |-> outs[1].ret, sent |-> outs[1].sent,
            nrecv |-> outs[1].nrecv, connects |-> outs[1].connects,
            pre_sock |-> st.sock, pre_buf |-> st.buf,
            rcvd |-> Received(st, envs[1], outs[1].nrecv)]>>
         \o CallLog(outs[1].st, Tail(outs), Tail(envs))

RECURSIVE Sum(_)
Sum(ns) == IF ns = <<>> THEN 0 ELSE ns[1] + Sum(Tail(ns))

\* the batch helper op ends as b, and log tells the calls it made: the
\* bytes sent and the chunks received are those of the calls, in order
FinishLogged(op, noreply, keys, b, log) ==
    /\ sock' = b.st.sock
    /\ buf' = b.st.buf
    /\ net' = b.st.net
    /\ last' = [op |-> op, noreply |-> noreply, keys |-> keys,
                exc |-> b.exc, arg |-> b.arg, stage |-> b.stage,
                ret |-> RetNone,
                sent |-> join([i \in 1..Len(log) |-> log[i].sent]),
                nrecv |-> Sum([i \in 1..Len(log) |-> log[i].nrecv]),
                connects |-> Sum([i \in 1..Len(log) |-> log[i].connects]),
                pre_sock |-> sock, pre_buf |-> buf,
                stream |-> join(join([i \in 1..Len(log) |-> log[i].rcvd])),
                rcvd |-> join([i \in 1..Len(log) |-> log[i].rcvd]),
                swallowed |-> "",
                after_failure |-> last.after_failure, calls |-> log]
    /\ UNCHANGED <<cfg, rd>>

FinishBatch(op, noreply, keys, envs, b) ==
    FinishLogged(op, noreply, keys, b, CallLog(Now, b.calls, envs))

Store(name, cas) ==
    /\ CanCall
    /\ \E key \in Keys, noreply \in BOOLEAN :
         \E env \in Envs(Now, ~noreply /\ Encodable(key)) :
            Finish(name, noreply, <<key>>, env,
                   _store_cmd(Now, cfg, name, key, 0, noreply, <<"a">>,
                              cas, env))

Set == Store("set", <<>>)
Add == Store("add", <<>>)
Replace == Store("replace", <<>>)
Append_ == Store("append", <<>>)
Prepend == Store("prepend", <<>>)
Cas == Store("cas", <<"5">>)

Get ==
    /\ CanCall
    /\ \E key \in Keys : \E env \in Envs(Now, Encodable(key)) :
          Finish("get", FALSE, <<key>>, env, get(Now, cfg, key, env))

Gets ==
    /\ CanCall
    /\ \E key \in Keys : \E env \in Envs(Now, Encodable(key)) :
          Finish("gets", FALSE, <<key>>, env, gets(Now, cfg, key, env))

GetMany ==
    /\ CanCall
    /\ \E keys \in KeyLists :
         \E env \in Envs(Now, keys # <<>> /\ \A i \in 1..Len(keys) :
                                                Encodable(keys[i])) :
            Finish("get_many", FALSE, keys, env, get_many(Now, cfg, keys, env))

GetsMany ==
    /\ CanCall
    /\ \E keys \in KeyLists :
         \E env \in Envs(Now, keys # <<>> /\ \A i \in 1..Len(keys) :
                                                Encodable(keys[i])) :
            Finish("gets_many", FALSE, keys, env, gets_many(Now, cfg, keys, env))

Delete ==
    /\ CanCall
    /\ \E key \in Keys, noreply \in BOOLEAN :
         \E env \in Envs(Now, ~noreply /\ Encodable(key)) :
            Finish("delete", noreply, <<key>>, env, delete(Now, key, noreply, env))

Incr ==
    /\ CanCall
    /\ \E key \in Keys, noreply \in BOOLEAN :
         \E env \in Envs(Now, ~noreply /\ Encodable(key)) :
            Finish("incr", noreply, <<key>>, env, incr(Now, key, 1, noreply, env))

Decr ==
    /\ CanCall
    /\ \E key \in Keys, noreply \in BOOLEAN :
         \E env \in Envs(Now, ~noreply /\ Encodable(key)) :
            Finish("decr", noreply, <<key>>, env, decr(Now, key, 1, noreply, env))

Touch ==
    /\ CanCall
    /\ \E key \in Keys, noreply \in BOOLEAN :
         \E env \in Envs(Now, ~noreply /\ Encodable(key)) :
            Finish("touch", noreply, <<key>>, env, touch(Now, key, 0, noreply, env))

FlushAll ==
    /\ CanCall
    /\ \E noreply \in BOOLEAN : \E env \in Envs(Now, ~noreply) :
          Finish("flush_all", noreply, <<>>, env, flush_all(Now, 0, noreply, env))

Quit ==
    /\ CanCall
    /\ \E env \in Envs(Now, FALSE) :
          Finish("quit", TRUE, <<>>, env, quit(Now, env))

Close ==
    /\ CanCall
    /\ Finish("close", TRUE, <<>>, NoCuts,
              Outcome(close(Now), "", <<>>, "", RetNone, <<>>, 0, 0))

\* the dict whose items are the keys of keys, each with the value "a"
Items(keys) == [i \in 1..Len(keys) |-> <<keys[i], <<"a">>>>]

SetMany ==
    /\ CanCall
    /\ \E keys \in KeyLists, noreply \in BOOLEAN :
         \E envs \in SetManyEnvs(Now, cfg, Items(keys), 0, noreply, MaxCuts) :
            FinishBatch("set_many", noreply, keys, envs,
                        set_many(Now, cfg, Items(keys), 0, noreply, envs))

DeleteMany ==
    /\ CanCall
    /\ \E keys \in KeyLists, noreply \in BOOLEAN :
         \E envs \in DeleteManyEnvs(Now, keys, noreply, MaxCuts) :
            FinishBatch("delete_many", noreply, keys, envs,
                        delete_many(Now, keys, noreply, envs))

\* the caller takes the value or the exception of the call that ended
Return ==
    /\ last.op # "idle"
    /\ last' = Idle(last.stage \in TornStages)
    /\ UNCHANGED <<sock, buf, net, cfg, rd>>

\* the server, whose earlier bytes the client has consumed, writes what
\* it sends next
ServerSend ==
    /\ last.op = "idle"
    /\ net = <<>>
    /\ buf = <<>>
    /\ net' \in Bursts
    /\ UNCHANGED <<sock, buf, last, cfg, rd>>

Next ==
    \/ Set \/ Add \/ Replace \/ Append_ \/ Prepend \/ Cas
    \/ Get \/ Gets \/ GetMany \/ GetsMany
    \/ Delete \/ Incr \/ Decr \/ Touch \/ FlushAll \/ Quit \/ Close
    \/ Return \/ ServerSend

Spec == Init /\ [][Next]_vars

-----------------------------------------------------------------------------
(* The batch helpers, with the calls they are made of and the calls that   *)
(* leave them a pending buffer or a closed connection to start from.       *)

\* the replies of a server to the two commands of a batch
BatchBursts ==
    {r1 \o r2 : r1 \in {W_STORED \o CRLF, W_DELETED \o CRLF},
                r2 \in {W_STORED \o CRLF, W_DELETED \o CRLF,
                        W_NOT_FOUND \o CRLF}}

ServerSendBatch ==
    /\ last.op = "idle"
    /\ net = <<>>
    /\ buf = <<>>
    /\ net' \in Bursts \cup BatchBursts
    /\ UNCHANGED <<sock, buf, last, cfg, rd>>

NextBatch ==
    \/ SetMany \/ DeleteMany \/ Set \/ Delete \/ Get \/ Close
    \/ Return \/ ServerSendBatch

SpecBatch == Init /\ [][NextBatch]_vars

-----------------------------------------------------------------------------
(* The readers on their own: every stream of at most MaxLen bytes over     *)
(* Alphabet, split in every way into a pending buffer and recv chunks.     *)

Alphabet == {"a", CR, LF}

Streams == UNION {[1..n -> Alphabet] : n \in 0..MaxLen}

\* the inputs <<buf, sock>> whose bytes are those of s
Splits(s) ==
    UNION {{<<SubSeq(s, 1, p), Chunk(SubSeq(s, p + 1, Len(s)), cuts)>> :
               cuts \in SUBSET (1..(Len(s) - p - 1))} :
           p \in 0..Len(s)}

RdInputs ==
    UNION {{[RdIdle EXCEPT !.buf = i[1], !.sock = i[2]] : i \in Splits(s)} :
           s \in Streams}

InitReader ==
    /\ sock = None
    /\ buf = <<>>
    /\ net = <<>>
    /\ last = Idle(FALSE)
    /\ cfg = [ignore_exc |-> FALSE, serde |-> FALSE]
    /\ rd \in RdInputs

CallReadline ==
    /\ rd.fn = "idle"
    /\ rd' = [rd EXCEPT !.fn = "_readline",
                        !.out = _readline(rd.sock, rd.buf)]
    /\ UNCHANGED <<sock, buf, net, last, cfg>>

CallReadvalue ==
    /\ rd.fn = "idle"
    /\ \E size \in 0..MaxSize :
          rd' = [rd EXCEPT !.fn = "_readvalue", !.size = size,
                           !.out = _readvalue(rd.sock, rd.buf, size)]
    /\ UNCHANGED <<sock, buf, net, last, cfg>>

NextReader == CallReadline \/ CallReadvalue

SpecReader == InitReader /\ [][NextReader]_vars

-----------------------------------------------------------------------------
(* _raise_errors on its own: reply lines made of a first word and what     *)
(* follows it, classified for every command name.                          *)

LineHeads ==
    {W_ERROR, W_CLIENT_ERROR, W_SERVER_ERROR, W_STORED, W_END, <<>>,
     <<"C", "L", "I", "E", "N", "T">>, <<"E", "R", "R">>,
     <<SP>> \o W_ERROR, <<"x">> \o W_SERVER_ERROR}

LineTails ==
    {<<>>, <<SP>>, <<SP, "x">>, <<SP, "x", SP, "y">>, <<"x">>,
     <<SP, SP, "x">>, <<"x", SP>>}

ClassifyInputs ==
    {[RdIdle EXCEPT !.buf = h \o tl] : h \in LineHeads, tl \in LineTails}

InitClassify ==
    /\ sock = None
    /\ buf = <<>>
    /\ net = <<>>
    /\ last = Idle(FALSE)
    /\ cfg = [ignore_exc |-> FALSE, serde |-> FALSE]
    /\ rd \in ClassifyInputs

CallRaiseErrors ==
    /\ rd.fn = "idle"
    /\ \E name \in DOMAIN NameChars :
          rd' = [rd EXCEPT !.fn = "_raise_errors", !.name = name,
                           !.out = _raise_errors(rd.buf, name)]
    /\ UNCHANGED <<sock, buf, net, last, cfg>>

NextClassify == CallRaiseErrors

SpecClassify == InitClassify /\ [][NextClassify]_vars

\* all the bytes of the input, and those of it the call has read: the
\* pending buffer and the chunks recv returned
RdInput == rd.buf \o join(rd.sock)
RdRead ==
    rd.buf \o join(SubSeq(rd.sock, 1, Len(rd.sock) - Len(rd.out.sock)))

-----------------------------------------------------------------------------
(* Claims.                                                                 *)

\* C1: _readline returns, for every pending buffer and every chunking, the
\* bytes before the first CRLF of the input as the line and the bytes read
\* after that CRLF as the buffer, also when the CRLF is split across two
\* chunks and more follows in the second.
C1_ReadlineFirstCRLF ==
    (rd.fn = "_readline" /\ find(RdInput, CRLF) # -1) =>
        LET idx == find(RdRead, CRLF) IN
        /\ rd.out.exc = ""
        /\ idx = find(RdInput, CRLF)
        /\ rd.out.data = SubSeq(RdRead, 1, idx)
        /\ rd.out.buf = SubSeq(RdRead, idx + 3, Len(RdRead))

\* C2: _readvalue returns, for every size >= 0, pending buffer and
\* chunking, the first size bytes of the input as the value, discards the
\* two terminator bytes after them and returns the bytes read after those
\* as the buffer.
C2_ReadvalueExactSize ==
    (/\ rd.fn = "_readvalue"
     /\ Len(RdInput) >= rd.size + 2
     /\ SubSeq(RdInput, rd.size + 1, rd.size + 2) = CRLF) =>
        /\ rd.out.exc = ""
        /\ rd.out.data = SubSeq(RdRead, 1, rd.size)
        /\ rd.out.buf = SubSeq(RdRead, rd.size + 3, Len(RdRead))

StoreOps == {"set", "add", "replace", "append", "prepend", "cas"}
FetchOps == {"get", "gets", "get_many", "gets_many"}
MiscOps == {"delete", "incr", "decr", "touch", "flush_all"}

\* the call that ended waited for a reply
ReplyAwaiting ==
    \/ last.op \in StoreOps \cup MiscOps /\ ~last.noreply
    \/ last.op \in FetchOps /\ last.keys # <<>>

\* the bytes read from the stream up to the end of the call that ended
Read == last.pre_buf \o join(last.rcvd)

\* a recv of the call that ended returned no bytes
EofHit == last.nrecv > Len(last.rcvd)

\* the fetch that ended, made again on the same object with the same bytes
\* coming in one recv
FetchAgain ==
    LET st == St(last.pre_sock, last.pre_buf, last.stream) IN
    CASE last.op = "get" -> get(st, cfg, last.keys[1], NoCuts)
      [] last.op = "gets" -> gets(st, cfg, last.keys[1], NoCuts)
      [] last.op = "get_many" -> get_many(st, cfg, last.keys, NoCuts)
      [] OTHER -> gets_many(st, cfg, last.keys, NoCuts)

\* C3: a fetch whose reply (VALUE header, payload, ..., END) ends the bytes
\* received gives the same result and the same empty final pending buffer
\* however the bytes are cut into recv chunks as when they come in one recv.
C3_FetchChunkingIndependent ==
    (/\ last.op \in FetchOps
     /\ last.keys # <<>>
     /\ last.stage \notin {"connect", "encode", "send"}
     /\ FetchAgain.exc = "" /\ FetchAgain.swallowed = ""
     /\ FetchAgain.st.buf = <<>>) =>
        /\ last.exc = "" /\ last.swallowed = ""
        /\ last.ret = FetchAgain.ret
        /\ buf = <<>>

\* C4: when a call that waits for a reply fails on an ERROR, CLIENT_ERROR or
\* SERVER_ERROR reply line, or on the stream closing early, the client is
\* disconnected with an empty pending buffer when the caller gets the error.
C4_ErrorReplyDisconnects ==
    (/\ ReplyAwaiting
     /\ \/ /\ last.stage = "classify"
           /\ last.exc \in {"MemcacheUnknownCommandError",
                            "MemcacheClientError", "MemcacheServerError"}
        \/ last.exc = "MemcacheUnexpectedCloseError") =>
        sock = None /\ buf = <<>>

\* a connected client holding pending bytes got an error reply and is torn
\* down
C4_Witness ==
    /\ last.exc = "MemcacheServerError"
    /\ last.pre_sock = Socket
    /\ last.pre_buf # <<>>
    /\ sock = None
    /\ buf = <<>>

\* what a healthy server answers to the call that ended, with the value
\* the call then returns
HealthyAnswers ==
    LET line(w) == w \o CRLF
        value(fl, cas) ==
            W_VALUE \o <<SP, "k", SP, fl, SP, "1">> \o cas \o CRLF
                \o <<"a">> \o CRLF \o W_END \o CRLF
    IN
    IF last.op \in StoreOps \cup MiscOps /\ last.noreply
    THEN {<<<<>>, RetNone>>}
    ELSE IF last.op \in StoreOps
    THEN {<<line(w), RetStr(w)>> : w \in VALID_STORE_RESULTS[last.op]}
    ELSE IF last.op = "delete"
    THEN {<<line(w), RetStr(w)>> : w \in {W_DELETED, W_NOT_FOUND}}
    ELSE IF last.op \in {"incr", "decr"}
    THEN {<<line(<<"7">>), RetInt(7)>>,
          <<line(W_NOT_FOUND), RetStr(W_NOT_FOUND)>>}
    ELSE IF last.op = "touch"
    THEN {<<line(w), RetStr(w)>> : w \in {W_OK, W_NOT_FOUND}}
    ELSE IF last.op = "flush_all"
    THEN {<<line(W_OK), RetStr(W_OK)>>}
    ELSE IF last.op = "get"
    THEN {<<line(W_END), RetNone>>, <<value("1", <<>>), RetStr(<<"a">>)>>}
    ELSE IF last.op = "get_many"
    THEN {<<line(W_END), RetDict({})>>,
          <<value("1", <<>>), RetDict({<<<<"k">>, <<"a">>, <<>>, NoObj>>})>>}
    ELSE IF last.op = "gets"
    THEN {<<line(W_END), RetNonePair>>} \cup
         (IF cfg.serde THEN {}
          ELSE {<<value("0", <<SP, "5">>), RetPair(<<"a">>, <<"5">>)>>})
    ELSE IF last.op = "gets_many"
    THEN {<<line(W_END), RetDict({})>>} \cup
         (IF cfg.serde THEN {}
          ELSE {<<value("0", <<SP, "5">>),
                  RetDict({<<<<"k">>, <<"a">>, <<"5">>, NoObj>>})>>})
    ELSE {}

\* C5: the call after one that failed and tore the connection down starts
\* disconnected with an empty pending buffer, makes a new connection, and,
\* the server being reachable and answering its command, returns the result
\* for that command.
C5_RecoversAfterFailure ==
    (/\ last.op \in StoreOps \cup FetchOps \cup MiscOps
     /\ last.after_failure
     /\ last.stage \notin {"connect", "encode", "send"}
     /\ \A i \in 1..Len(last.keys) : Encodable(last.keys[i])
     /\ last.keys # <<>> \/ last.op = "flush_all") =>
        /\ last.pre_sock = None /\ last.pre_buf = <<>>
        /\ last.connects = 1
        /\ \A h \in HealthyAnswers :
              last.stream = h[1] =>
                 last.exc = "" /\ last.swallowed = "" /\ last.ret = h[2]

\* C6: whenever a call raises, the client is disconnected when the caller
\* gets the error.
C6_EveryErrorDisconnects ==
    (last.op # "idle" /\ last.exc # "") => sock = None

\* C7: whenever the client is disconnected its pending buffer is empty.
C7_NoBufferWithoutConnection ==
    sock = None => buf = <<>>

\* close() was called on a connected client holding pending bytes
C7_Witness ==
    /\ last.op = "close"
    /\ last.pre_sock = Socket
    /\ last.pre_buf # <<>>
    /\ sock = None
    /\ buf = <<>>

\* C8: after a call of any kind that returns a line or a value the pending
\* buffer is exactly the bytes read from the stream after that line (the
\* END line for a fetch), so that no byte read is dropped.
C8_PendingBufferExact ==
    /\ (/\ last.op \in StoreOps \cup {"delete", "touch", "flush_all"}
        /\ ~last.noreply
        /\ last.exc = "") =>
           Read = last.ret.val \o CRLF \o buf
    /\ (/\ last.op \in FetchOps
        /\ last.keys # <<>>
        /\ last.exc = "" /\ last.swallowed = "") =>
           PyFrom(Read, Len(Read) - Len(buf) - 5) = W_END \o CRLF \o buf

\* C9: with ignore_exc no get, gets, get_many or gets_many raises, whatever
\* fails in it.
C9_IgnoreExcSwallowsAll ==
    (cfg.ignore_exc /\ last.op \in FetchOps) => last.exc = ""

\* C10: when a recv of _readline or _readvalue returns no bytes the call
\* ends with MemcacheUnexpectedCloseError (which only ignore_exc keeps from
\* the caller of a fetch), no line or value is returned, and the connection
\* is torn down.
C10_EofRaisesAndDisconnects ==
    (last.op # "idle" /\ EofHit) =>
        /\ last.stage \in {"readline", "readvalue"}
        /\ \/ last.exc = "MemcacheUnexpectedCloseError"
           \/ /\ last.exc = ""
              /\ last.swallowed = "MemcacheUnexpectedCloseError"
              /\ cfg.ignore_exc
              /\ last.op \in FetchOps
        /\ last.ret \in {RetNone, RetNonePair, RetDict({})}
        /\ sock = None
        /\ buf = <<>>

\* the stream ended inside a value of which some bytes had come
C10_Witness ==
    /\ EofHit
    /\ last.stage = "readvalue"
    /\ last.exc = "MemcacheUnexpectedCloseError"
    /\ last.rcvd # <<>>
    /\ sock = None

\* the line begins with the word w
Begins(line, w) ==
    Len(line) >= Len(w) /\ SubSeq(line, 1, Len(w)) = w

\* d is what follows the first space of the line
AfterFirstSpace(line, d) ==
    \E i \in 1..Len(line) :
       /\ line[i] = SP
       /\ \A j \in 1..(i - 1) : line[j] # SP
       /\ d = SubSeq(line, i + 1, Len(line))

\* C11: _raise_errors raises the unknown-command error, with the command
\* name, for a line beginning with ERROR, the client error for one beginning
\* with CLIENT_ERROR and the server error for one beginning with
\* SERVER_ERROR, the detail of these two being what follows the first space
\* of the line; for every other line it raises nothing.
C11_ClassifyReplyLine ==
    rd.fn = "_raise_errors" =>
        /\ Begins(rd.buf, W_ERROR) =>
              /\ rd.out.exc = "MemcacheUnknownCommandError"
              /\ rd.out.arg = NameChars[rd.name]
        /\ Begins(rd.buf, W_CLIENT_ERROR) =>
              /\ rd.out.exc = "MemcacheClientError"
              /\ (\E i \in 1..Len(rd.buf) : rd.buf[i] = SP) =>
                    AfterFirstSpace(rd.buf, rd.out.arg)
        /\ Begins(rd.buf, W_SERVER_ERROR) =>
              /\ rd.out.exc = "MemcacheServerError"
              /\ (\E i \in 1..Len(rd.buf) : rd.buf[i] = SP) =>
                    AfterFirstSpace(rd.buf, rd.out.arg)
        /\ (/\ ~Begins(rd.buf, W_ERROR)
            /\ ~Begins(rd.buf, W_CLIENT_ERROR)
            /\ ~Begins(rd.buf, W_SERVER_ERROR)) => rd.out.exc = ""

\* a SERVER_ERROR line with a detail of two words was classified
C11_Witness ==
    /\ rd.fn = "_raise_errors"
    /\ rd.buf = W_SERVER_ERROR \o <<SP, "x", SP, "y">>
    /\ rd.out.exc = "MemcacheServerError"
    /\ rd.out.arg = <<"x", SP, "y">>

\* the line that _readline gave the call that ended, from the pending
\* buffer it had and the chunks it received
ReplyLine == _readline(last.rcvd, last.pre_buf)

\* the replies with which each store command succeeds or reports, as the
\* memcached protocol gives them
StoreOutcomes(op) ==
    IF op = "set" THEN {W_STORED}
    ELSE IF op = "cas" THEN {W_STORED, W_EXISTS, W_NOT_FOUND}
    ELSE {W_STORED, W_NOT_STORED}

\* C12: a store command sent without noreply returns its reply line, as it
\* is, exactly when the line is one of the valid results of that command; an
\* error line is classified first; any other line raises
\* MemcacheUnknownError with the first 32 characters of the line and the
\* connection is torn down.
C12_StoreReplyValidated ==
    (/\ last.op \in StoreOps
     /\ ~last.noreply
     /\ last.stage \notin {"connect", "encode", "send", "readline"}) =>
        LET reply == ReplyLine
            line  == reply.data
        IN
        /\ reply.exc = ""
        /\ (last.exc = "") <=> (line \in StoreOutcomes(last.op))
        /\ last.exc = "" =>
              /\ last.ret = RetStr(line)
              /\ sock = Socket
        /\ (\/ Begins(line, W_ERROR)
            \/ Begins(line, W_CLIENT_ERROR)
            \/ Begins(line, W_SERVER_ERROR)) =>
              last.exc \in {"MemcacheUnknownCommandError",
                            "MemcacheClientError", "MemcacheServerError"}
        /\ (/\ line \notin StoreOutcomes(last.op)
            /\ ~Begins(line, W_ERROR)
            /\ ~Begins(line, W_CLIENT_ERROR)
            /\ ~Begins(line, W_SERVER_ERROR)) =>
              /\ last.exc = "MemcacheUnknownError"
              /\ last.arg = SubSeq(line, 1, IF Len(line) < 32 THEN Len(line)
                                            ELSE 32)
              /\ sock = None
              /\ buf = <<>>

\* cas was answered EXISTS and returned it
C12_Witness ==
    /\ last.op = "cas"
    /\ ~last.noreply
    /\ last.exc = ""
    /\ last.ret = RetStr(W_EXISTS)
    /\ sock = Socket

\* C13: get_many and gets_many that return, having received the VALUE
\* headers, values of the declared sizes and the END line the server sent,
\* return the mapping of exactly the keys sent to the values sent (with the
\* cas for gets_many); a key asked for and not sent is absent.
C13_FetchMapsWhatWasSent ==
    (/\ last.op \in {"get_many", "gets_many"}
     /\ last.keys # <<>>
     /\ last.exc = "" /\ last.swallowed = "") =>
        \A h \in HealthyAnswers :
           last.stream = h[1] =>
              /\ last.ret = h[2]
              /\ \A e \in last.ret.map :
                    \E i \in 1..Len(last.keys) : last.keys[i] = e[1]

\* C14: get_many and gets_many of an empty key list return an empty
\* mapping without connecting, sending or receiving, and leave the socket
\* and the pending buffer as they were.
C14_EmptyKeysNoIO ==
    (last.op \in {"get_many", "gets_many"} /\ last.keys = <<>>) =>
        /\ last.exc = "" /\ last.swallowed = ""
        /\ last.ret = RetDict({})
        /\ last.connects = 0
        /\ last.sent = <<>>
        /\ last.nrecv = 0
        /\ sock = last.pre_sock
        /\ buf = last.pre_buf

\* get_many([]) on a connected client that holds pending bytes
C14_Witness ==
    /\ last.op = "get_many"
    /\ last.keys = <<>>
    /\ last.pre_sock = Socket
    /\ last.pre_buf # <<>>
    /\ sock = Socket
    /\ buf = last.pre_buf

\* the one _readline call of the call that ended: _store_cmd passes it the
\* pending buffer, _misc_cmd an empty one
OneLine ==
    _readline(last.rcvd, IF last.op \in StoreOps THEN last.pre_buf ELSE <<>>)

\* C15: under noreply a store command, delete, incr, decr, touch and
\* flush_all never call recv, and once the command is sent return None with
\* the client connected and the pending buffer as it was; without noreply
\* they make the recv calls of one _readline and return from that one line.
C15_NoreplyReadsNothing ==
    (last.op \in StoreOps \cup MiscOps) =>
        /\ last.noreply =>
              /\ last.nrecv = 0
              /\ last.exc = "" =>
                    /\ last.ret = RetNone
                    /\ last.sent # <<>>
                    /\ sock = Socket
                    /\ buf = last.pre_buf
        /\ (~last.noreply /\ last.exc = "") =>
              LET one == OneLine IN
              /\ last.sent # <<>>
              /\ one.exc = ""
              /\ one.nrecv = last.nrecv
              /\ \/ last.ret = RetStr(one.data)
                 \/ /\ PyInt(one.data).ok
                    /\ last.ret = RetInt(PyInt(one.data).val)

\* touch under noreply on a connected client that holds pending bytes,
\* with bytes of the server waiting to be received
C15_Witness ==
    /\ last.op = "touch"
    /\ last.noreply
    /\ last.exc = ""
    /\ last.sent # <<>>
    /\ last.pre_buf # <<>>
    /\ buf = last.pre_buf
    /\ sock = Socket
    /\ last.nrecv = 0

\* the line is a decimal numeral without sign or leading zero
IsNumeral(line) ==
    /\ line # <<>>
    /\ \A i \in 1..Len(line) : IsDigit(line[i])
    /\ Len(line) > 1 => line[1] # "0"

\* C16: incr and decr without noreply return the integer that the reply
\* line writes when the line is a decimal integer and the string NOT_FOUND
\* when the line is NOT_FOUND; under noreply they return None.
C16_ArithmeticResult ==
    (last.op \in {"incr", "decr"}) =>
        /\ (last.noreply /\ last.exc = "") => last.ret = RetNone
        /\ (/\ ~last.noreply
            /\ last.stage \notin {"connect", "encode", "send", "readline"}) =>
              LET one == OneLine IN
              /\ one.exc = ""
              /\ IsNumeral(one.data) =>
                    /\ last.exc = ""
                    /\ last.ret.kind = "int"
                    /\ last.ret.val = one.data
              /\ one.data = W_NOT_FOUND =>
                    /\ last.exc = ""
                    /\ last.ret = RetStr(W_NOT_FOUND)

\* incr was answered 7 and returned the integer
C16_Witness ==
    /\ last.op = "incr"
    /\ ~last.noreply
    /\ last.exc = ""
    /\ last.ret.kind = "int"
    /\ last.ret.val = <<"7">>

\* C17: quit sends "quit\r\n" and never calls recv; whether it returns or
\* raises, from any state, the client is then disconnected with an empty
\* pending buffer; a call made on a disconnected client connects before it
\* sends.
C17_QuitClosesAndReconnects ==
    /\ last.op = "quit" =>
          /\ last.nrecv = 0
          /\ last.exc = "" => last.sent = W_quit \o CRLF
          /\ last.ret = RetNone
          /\ sock = None
          /\ buf = <<>>
    /\ (last.pre_sock = None /\ last.sent # <<>>) => last.connects = 1

\* quit returned on a client that was connected and held pending bytes
C17_Witness ==
    /\ last.op = "quit"
    /\ last.exc = ""
    /\ last.pre_sock = Socket
    /\ last.pre_buf # <<>>
    /\ sock = None
    /\ buf = <<>>

-----------------------------------------------------------------------------
(* The batch helpers.                                                      *)

BatchOps == {"set_many", "delete_many"}

\* the one command that a batch helper sends for the key of an entry whose
\* value is "a"
EntryCommand(op, key, noreply, serde) ==
    (IF op = "set_many"
     THEN <<"s", "e", "t", " ">> \o key
              \o <<" ", IF serde THEN "1" ELSE "0", " ", "0", " ", "1">>
     ELSE <<"d", "e", "l", "e", "t", "e", " ">> \o key)
    \o (IF noreply THEN <<" ", "n", "o", "r", "e", "p", "l", "y">> ELSE <<>>)
    \o CRLF
    \o (IF op = "set_many" THEN <<"a">> \o CRLF ELSE <<>>)

\* the reply line that call i of the batch read: set reads on from the
\* pending buffer, delete from the socket alone
BatchLine(i) ==
    _readline(last.calls[i].rcvd,
              IF last.op = "set_many" THEN last.calls[i].pre_buf ELSE <<>>)

\* C18: set_many and delete_many make their calls one after the other in
\* the order of the entries, at most one for each entry, and every call
\* sends the one command of its entry or nothing.  A call is followed by
\* the next only when it has ended without an exception, its command sent
\* and, when noreply is false, its reply line read to the end by its own
\* recv calls, so that no two commands are out at once; under noreply no
\* call reads.  The bytes sent are those of the calls in their order, and a
\* helper that raises nothing has made one call for every entry and
\* returns None.
C18_BatchSequential ==
    last.op \in BatchOps =>
        /\ Len(last.calls) <= Len(last.keys)
        /\ last.ret = RetNone
        /\ \A i \in 1..Len(last.calls) :
              /\ last.calls[i].sent
                    \in {<<>>, EntryCommand(last.op, last.keys[i],
                                            last.noreply, cfg.serde)}
              /\ last.noreply => last.calls[i].nrecv = 0
              /\ (i < Len(last.calls) \/ last.exc = "") =>
                    /\ last.calls[i].exc = ""
                    /\ last.calls[i].sent # <<>>
                    /\ ~last.noreply =>
                          /\ BatchLine(i).exc = ""
                          /\ BatchLine(i).nrecv = last.calls[i].nrecv
                          /\ last.calls[i].ret = RetStr(BatchLine(i).data)
        /\ last.sent = join([i \in 1..Len(last.calls) |-> last.calls[i].sent])
        /\ last.exc = "" => Len(last.calls) = Len(last.keys)

\* set_many of two entries has returned, each reply read by its own call
\* from the socket before the next command went out
C18_Witness ==
    /\ last.op = "set_many"
    /\ ~last.noreply
    /\ last.exc = ""
    /\ Len(last.calls) = 2
    /\ last.calls[1].nrecv = 1
    /\ last.calls[2].nrecv = 1
    /\ last.calls[2].pre_buf = <<>>

\* the server took the command of call i: the call read a whole reply
\* line, which for a set is STORED and for a delete is not an error reply
Accepted(i) ==
    /\ BatchLine(i).exc = ""
    /\ IF last.op = "set_many" THEN BatchLine(i).data = W_STORED
       ELSE /\ ~Begins(BatchLine(i).data, W_ERROR)
            /\ ~Begins(BatchLine(i).data, W_CLIENT_ERROR)
            /\ ~Begins(BatchLine(i).data, W_SERVER_ERROR)

\* C19: a batch helper that returns normally has sent the command of every
\* entry and, when noreply is false, the server has accepted every one of
\* them; the exception of a call that fails is the exception the helper
\* raises, so that no failure is kept from the caller and no entry is
\* passed over in silence.
C19_BatchFailureRaised ==
    last.op \in BatchOps =>
        /\ last.exc = "" =>
              /\ Len(last.calls) = Len(last.keys)
              /\ \A i \in 1..Len(last.keys) :
                    /\ last.calls[i].sent
                          = EntryCommand(last.op, last.keys[i], last.noreply,
                                         cfg.serde)
                    /\ ~last.noreply => Accepted(i)
        /\ \A i \in 1..Len(last.calls) :
              \/ last.calls[i].exc = ""
              \/ /\ i = Len(last.calls)
                 /\ last.exc = last.calls[i].exc
                 /\ last.stage = last.calls[i].stage
        /\ \A i \in 1..Len(last.calls) :
              (~last.noreply /\ last.calls[i].sent # <<>> /\ ~Accepted(i))
                  => last.exc # ""
        /\ Len(last.calls) < Len(last.keys) => last.exc # ""

\* the set of the first of two entries was answered NOT_FOUND: set_many
\* raised and made no call for the second entry
C19_Witness ==
    /\ last.op = "set_many"
    /\ ~last.noreply
    /\ Len(last.keys) = 2
    /\ Len(last.calls) = 1
    /\ last.calls[1].sent # <<>>
    /\ BatchLine(1).exc = ""
    /\ BatchLine(1).data = W_NOT_FOUND
    /\ last.exc = "MemcacheUnknownError"

-----------------------------------------------------------------------------
(* The command of the store family: _store_cmd on a new client, for every  *)
(* store method, with payloads of at most MaxLen bytes over Alphabet, one  *)
(* of twelve bytes, whose length takes two digits, and a unicode object.   *)

LongPayload == [i \in 1..12 |-> "a"]

\* the unicode object u'a\xe9'
UnicodePayload == <<"a", NonAscii>>

Payloads == Streams \cup {LongPayload, UnicodePayload}

\* the methods' arguments: only cas passes a cas token
StoreCalls ==
    {[fn |-> "idle", name |-> name, key |-> key, expire |-> expire,
      noreply |-> noreply, data |-> data, cas |-> cas, out |-> <<>>] :
        name \in {"set", "add", "replace", "append", "prepend"},
        key \in Keys, expire \in {0, 60}, noreply \in BOOLEAN,
        data \in Payloads, cas \in {<<>>}}
    \cup
    {[fn |-> "idle", name |-> "cas", key |-> key, expire |-> expire,
      noreply |-> noreply, data |-> data, cas |-> cas, out |-> <<>>] :
        key \in Keys, expire \in {0, 60}, noreply \in BOOLEAN,
        data \in Payloads,
        cas \in {<<"5">>, <<"1", "2">>}}

InitFormat ==
    /\ sock = None
    /\ buf = <<>>
    /\ net = <<>>
    /\ last = Idle(FALSE)
    /\ cfg \in Configs
    /\ rd \in StoreCalls

\* the call ends as o; out is what it gave to sendall
StoreCmdEnds(o) ==
    /\ sock' = o.st.sock
    /\ buf' = o.st.buf
    /\ net' = o.st.net
    /\ rd' = [rd EXCEPT !.fn = "_store_cmd", !.out = o.sent]
    /\ UNCHANGED <<last, cfg>>

\* the call is made on a connection that opens and takes the command, and
\* on which no reply comes
CallStoreCmd ==
    /\ rd.fn = "idle"
    /\ StoreCmdEnds(_store_cmd(Now, cfg, rd.name, rd.key, rd.expire,
                               rd.noreply, rd.data, rd.cas, NoCuts))

NextFormat == CallStoreCmd

SpecFormat == InitFormat /\ [][NextFormat]_vars

\* the decimal numeral of a number below 100
Numeral(n) ==
    IF n < 10 THEN <<Digits[n + 1]>>
    ELSE <<Digits[(n \div 10) + 1], Digits[(n % 10) + 1]>>

\* the JSON text of UnicodePayload, as it has to be stored
UnicodeStored == <<"\"", "a", "\\", "u", "0", "0", "e", "9", "\"">>

\* C20: the command that a store method sends is the name, the key, the
\* flags, the expiry and the number of bytes of the payload, with single
\* spaces between them; then a space and the cas token when the method is
\* cas and nothing otherwise; then " noreply" when noreply was asked for and
\* nothing otherwise; then CRLF, the payload and CRLF.  The payload is the
\* data the serializer returned when one is configured (a str as it is,
\* with flags 1, and a unicode object as its JSON text, with flags 2), the
\* number of bytes is the length of that payload, and the flags are 0 when
\* no serializer is configured.
C20_StoreCommandFormat ==
    (rd.fn = "_store_cmd" /\ Encodable(rd.key)
        /\ (cfg.serde \/ rd.data # UnicodePayload)) =>
        LET payload == IF rd.data = UnicodePayload THEN UnicodeStored
                       ELSE rd.data
            flags   == IF ~cfg.serde THEN <<"0">>
                       ELSE IF rd.data = UnicodePayload THEN <<"2">>
                       ELSE <<"1">>
        IN  rd.out = NameChars[rd.name] \o <<SP>> \o rd.key \o <<SP>>
                        \o flags \o <<SP>>
                        \o Numeral(rd.expire) \o <<SP>>
                        \o Numeral(Len(payload))
                        \o (IF rd.name = "cas" THEN <<SP>> \o rd.cas
                            ELSE <<>>)
                        \o (IF rd.noreply
                            THEN <<SP, "n", "o", "r", "e", "p", "l", "y">>
                            ELSE <<>>)
                        \o <<CR, LF>> \o payload \o <<CR, LF>>

\* a cas with a token, under noreply, with the serializer configured and a
\* payload that the serializer turns into a longer one, has sent its command
C20_Witness ==
    /\ rd.fn = "_store_cmd"
    /\ rd.name = "cas"
    /\ rd.cas = <<"1", "2">>
    /\ rd.noreply
    /\ cfg.serde
    /\ rd.data = UnicodePayload
    /\ Len(rd.out) > Len(rd.data) + 20

-----------------------------------------------------------------------------
(* The lines of a fetch.                                                   *)

\* the first reply line of the fetch that ended
FirstLine == _readline(last.rcvd, last.pre_buf)

\* the number of fields of a line: its runs of characters that are not
\* white space
FieldCount(line) ==
    Cardinality({i \in 1..Len(line) :
                    /\ ~IsSpace(line[i])
                    /\ (i = 1 \/ IsSpace(line[i - 1]))})

\* a VALUE header with the fields the command expects
WellFormedHeader(line, op) ==
    /\ Begins(line, W_VALUE)
    /\ FieldCount(line) = (IF op \in {"gets", "gets_many"} THEN 5 ELSE 4)

\* C21: a fetch whose first reply line, a line with no CR or LF in it, is
\* neither an error reply, nor END, nor a VALUE header with the number of
\* fields of the command (4 for get, 5 for gets) ends with
\* MemcacheUnknownError, which is raised, or kept from the caller when
\* ignore_exc is set.
C21_FetchUnknownLine ==
    (/\ last.op \in FetchOps
     /\ last.sent # <<>>
     /\ FirstLine.exc = ""
     /\ \A i \in 1..Len(FirstLine.data) : FirstLine.data[i] \notin {CR, LF}
     /\ ~Begins(FirstLine.data, W_ERROR)
     /\ ~Begins(FirstLine.data, W_CLIENT_ERROR)
     /\ ~Begins(FirstLine.data, W_SERVER_ERROR)
     /\ FirstLine.data # W_END
     /\ ~WellFormedHeader(FirstLine.data, last.op)) =>
        \/ last.exc = "MemcacheUnknownError"
        \/ cfg.ignore_exc /\ last.swallowed = "MemcacheUnknownError"

\* C22: a call opens at most one connection, and opens it only when it
\* finds the client disconnected: a client found connected keeps its
\* connection, bytes are sent only on a connection that was there or was
\* opened by the call, and a client is connected after a call only when it
\* was before or the call connected it.  close opens none.  A call whose
\* connection attempt fails raises socket.error, having sent and received
\* nothing, and leaves the client disconnected with an empty pending
\* buffer.
C22_LazyExclusiveConnection ==
    last.op # "idle" =>
        /\ last.connects \in {0, 1}
        /\ last.connects = 1 => last.pre_sock = None
        /\ last.pre_sock = Socket => last.connects = 0
        /\ last.sent # <<>> => (last.pre_sock = Socket \/ last.connects = 1)
        /\ sock = Socket => (last.pre_sock = Socket \/ last.connects = 1)
        /\ last.op = "close" => last.connects = 0
        /\ last.stage = "connect" =>
              /\ last.exc = "socket.error"
              /\ last.pre_sock = None
              /\ last.connects = 1
              /\ last.sent = <<>>
              /\ last.nrecv = 0
              /\ sock = None
              /\ buf = <<>>

\* after a call that failed and closed the connection, the attempt of the
\* next call to connect has failed
C22_Witness ==
    /\ last.op = "get"
    /\ last.after_failure
    /\ last.stage = "connect"
    /\ last.exc = "socket.error"
    /\ sock = None

\* C23: a call that finds no pending bytes and whose server answers its
\* command, and nothing else, returns the result that this answer stands
\* for, and when it returns it has received the answer to its last byte
\* and holds nothing of it in the pending buffer, so that the next command
\* finds no reply outstanding.  A noreply command, which the server does
\* not answer, reads nothing.
C23_ReplyMatchesRequest ==
    (/\ last.op \in StoreOps \cup FetchOps \cup MiscOps
     /\ last.stage \notin {"connect", "encode", "send"}
     /\ \A i \in 1..Len(last.keys) : Encodable(last.keys[i])
     /\ last.keys # <<>> \/ last.op = "flush_all"
     /\ last.pre_buf = <<>>) =>
        \A h \in HealthyAnswers :
           last.stream = h[1] =>
              /\ last.exc = "" /\ last.swallowed = ""
              /\ last.ret = h[2]
              /\ Read = h[1]
              /\ buf = <<>>
              /\ last.noreply => last.nrecv = 0

-----------------------------------------------------------------------------
(* The recv calls of the readers.                                          *)

\* the bytes a reader has after n recv calls: the pending buffer it was
\* given and the first n chunks
Obtained(n) == rd.buf \o join(SubSeq(rd.sock, 1, Min(n, Len(rd.sock))))

\* s holds a CR followed by a LF
HasCRLF(s) == \E i \in 1..(Len(s) - 1) : s[i] = CR /\ s[i + 1] = LF

\* the reader _readline or _readvalue that was called has all it reads for
\* in the bytes s
Complete(s) ==
    IF rd.fn = "_readline" THEN HasCRLF(s) ELSE Len(s) >= rd.size + 2

\* C24: a reader that returns has made the least number of recv calls after
\* which the bytes it has are complete, a whole line for _readline and
\* size + 2 bytes for _readvalue: none when the pending buffer is complete
\* already, and no further one once they are.  A reader raises for the end
\* of the stream only when all the bytes there were are not complete.
C24_NoOverRead ==
    rd.fn \in {"_readline", "_readvalue"} =>
        /\ Complete(rd.buf) => (rd.out.exc = "" /\ rd.out.nrecv = 0)
        /\ rd.out.exc = "" =>
              /\ Complete(Obtained(rd.out.nrecv))
              /\ \A m \in 0..(rd.out.nrecv - 1) : ~Complete(Obtained(m))
              /\ Len(rd.out.sock) = Len(rd.sock) - rd.out.nrecv
        /\ rd.out.exc = "MemcacheUnexpectedCloseError" =>
              /\ ~Complete(RdInput)
              /\ rd.out.nrecv = Len(rd.sock) + 1

\* _readline, given a pending buffer with no whole line and two chunks to
\* come, returned after the first chunk, which ended the line, and left
\* the second unread
C24_Witness ==
    /\ rd.fn = "_readline"
    /\ ~HasCRLF(rd.buf)
    /\ rd.buf # <<>>
    /\ Len(rd.sock) = 2
    /\ rd.out.exc = ""
    /\ rd.out.nrecv = 1
    /\ Len(rd.out.sock) = 1

=============================================================================
